---- MODULE Spec2Model ----
(***************************************************************************)
(* obj2buf: the tool options, the buffer layout planner, the vertex packer *)
(* and the scalar codec, as state machines over the C++ sources.           *)
(*                                                                         *)
(*   Spec        options -> fixUp -> BufferLayout -> writeVertex           *)
(*   SpecPacker  a VertexPacker over a small buffer (add, align, rewind)   *)
(*   SpecCodec   decode followed by encode over the stored integers        *)
(***************************************************************************)
EXTENDS Integers, Sequences, FiniteSets, TLC

VARIABLES pc, tool, layout, packer, nverts, ret, codec

vars == <<pc, tool, layout, packer, nverts, ret, codec>>

(***************************************************************************)
(* VertexPacker::Storage::Type (the enum ordinals).                        *)
(***************************************************************************)
EXCLUDE == 0
SINT08N == 1
SINT08C == 2
UINT08N == 3
UINT08C == 4
SINT16N == 5
SINT16C == 6
UINT16N == 7
UINT16C == 8
FLOAT16 == 9
SINT32C == 10
UINT32C == 11
FLOAT32 == 12

Storage == EXCLUDE..FLOAT32

\* Storage::operator bool
IsSet(type) == type # EXCLUDE

\* Storage::bytes
Bytes(type) ==
    IF type = EXCLUDE THEN 0
    ELSE IF type \in {SINT08N, SINT08C, UINT08N, UINT08C} THEN 1
    ELSE IF type \in {SINT16N, SINT16C, UINT16N, UINT16C, FLOAT16} THEN 2
    ELSE 4

\* Storage::isSigned
IsSigned(type) ==
    IF type \in {EXCLUDE, UINT08N, UINT08C, UINT16N, UINT16C, UINT32C}
    THEN FALSE
    ELSE TRUE

\* Storage::isNormalized
IsNormalized(type) == type \in {SINT08N, UINT08N, SINT16N, UINT16N}

(***************************************************************************)
(* binary32 values: the sign bit s, the 8 exponent bits e and the 23       *)
(* mantissa bits m of the float. The arithmetic below is the round to      *)
(* nearest even float arithmetic of the compiled code (FLT_EVAL_METHOD 0)  *)
(* on zero and the normal numbers whose magnitude lies in [2^-7, 2^30),    *)
(* which covers every operand the codec meets for the 8 and 16 bit types.  *)
(***************************************************************************)
F32(s, e, m) == [s |-> s, e |-> e, m |-> m]

\* the integer significand and its power of two: the value is Sig * 2^Exp
Sig(f) == IF f.e = 0 THEN f.m ELSE 8388608 + f.m
Exp(f) == IF f.e = 0 THEN 0 - 149 ELSE f.e - 150

IsZeroF(f) == f.e = 0 /\ f.m = 0

RECURSIVE BitLen(_)
BitLen(n) == IF n = 0 THEN 0 ELSE 1 + BitLen(n \div 2)

\* the float with value q * 2^E, for 0 <= q <= 2^24 (exact)
PackF32(s, q, E) ==
    IF q = 0 THEN F32(s, 0, 0)
    ELSE IF q = 16777216 THEN F32(s, E + 151, 0)
    ELSE LET up == 24 - BitLen(q)
         IN  F32(s, E - up + 150, q * 2^up - 8388608)

\* the float nearest to (N * 2^k + low) * 2^E, ties to even; 0 <= low < 2^k
RoundF32(s, N, low, k, E) ==
    LET len == BitLen(N)
    IN  IF len > 24
        THEN LET sh   == len - 24
                 q    == N \div 2^sh
                 r    == N % 2^sh
                 half == 2^(sh - 1)
                 up   == r > half \/ (r = half /\ (low # 0 \/ q % 2 = 1))
             IN  PackF32(s, q + (IF up THEN 1 ELSE 0), E + k + sh)
        ELSE LET t  == IF 24 - len < k THEN 24 - len ELSE k
                 kk == k - t
                 q  == N * 2^t + (low \div 2^kk)
                 r  == low % 2^kk
                 up == kk > 0 /\ (2 * r > 2^kk \/ (2 * r = 2^kk /\ q % 2 = 1))
             IN  PackF32(s, q + (IF up THEN 1 ELSE 0), E + kk)

\* static_cast<float>(i) for |i| <= 2^24
FromInt(i) == PackF32(IF i < 0 THEN 1 ELSE 0, IF i < 0 THEN 0 - i ELSE i, 0)

\* long division: quotient bits until 26 are there, with the remainder
RECURSIVE DivBits(_, _, _, _)
DivBits(q, r, d, E) ==
    IF q >= 33554432 THEN [q |-> q, r |-> r, E |-> E]
    ELSE IF 2 * r >= d THEN DivBits(2 * q + 1, 2 * r - d, d, E - 1)
    ELSE DivBits(2 * q, 2 * r, d, E - 1)

\* f / d for an integer divisor 0 < d < 2^16 (converted to float exactly)
FDivInt(f, d) ==
    IF IsZeroF(f) THEN f
    ELSE LET x == DivBits(Sig(f) \div d, Sig(f) % d, d, Exp(f))
         IN  RoundF32(f.s, x.q, IF x.r # 0 THEN 1 ELSE 0, 1, x.E - 1)

\* f * d for an integer factor 0 < d < 2^16 (converted to float exactly)
FMulInt(f, d) ==
    IF IsZeroF(f) THEN f
    ELSE LET A == (Sig(f) \div 4096) * d
             B == (Sig(f) % 4096) * d
         IN  RoundF32(f.s, A + (B \div 4096), B % 4096, 12, Exp(f))

\* f + i for a small integer i (converted to float exactly)
FAddInt(f, i) ==
    IF IsZeroF(f) THEN FromInt(i)
    ELSE IF Exp(f) > 0
    THEN LET j == IF f.s = 1 THEN 0 - i ELSE i
         IN  RoundF32(f.s, Sig(f) + (j \div 2^Exp(f)), j % 2^Exp(f), Exp(f), 0)
    ELSE LET sc == 2^(0 - Exp(f))
             t  == (IF f.s = 1 THEN 0 - Sig(f) ELSE Sig(f)) + i * sc
         IN  IF t = 0 THEN F32(0, 0, 0)
             ELSE RoundF32(IF t < 0 THEN 1 ELSE 0,
                           IF t < 0 THEN 0 - t ELSE t, 0, 0, Exp(f))

\* f / 2.0f
FHalve(f) == IF IsZeroF(f) THEN f ELSE F32(f.s, f.e - 1, f.m)

\* round(): to the nearest integer, halfway cases away from zero
CRound(f) ==
    LET E   == Exp(f)
        mag == IF E >= 0 THEN Sig(f) * 2^E
               ELSE IF 0 - E >= 26 THEN 0
               ELSE (Sig(f) \div 2^(0 - E))
                    + (IF 2 * (Sig(f) % 2^(0 - E)) >= 2^(0 - E) THEN 1 ELSE 0)
    IN  IF f.s = 1 THEN 0 - mag ELSE mag

\* f < g for two floats that are zero or normal
FLess(f, g) ==
    LET key(x) == IF IsZeroF(x) THEN 0
                  ELSE IF x.s = 1 THEN 0 - (x.e * 8388608 + x.m)
                  ELSE x.e * 8388608 + x.m
    IN  key(f) < key(g)


(***************************************************************************)
(* minifloat: the table based conversions between binary32 and binary16.   *)
(***************************************************************************)
RECURSIVE BitOr(_, _)
BitOr(a, b) ==
    IF a = 0 THEN b
    ELSE IF b = 0 THEN a
    ELSE (IF a % 2 = 1 \/ b % 2 = 1 THEN 1 ELSE 0)
         + 2 * BitOr(a \div 2, b \div 2)

\* FloatToHalfConv::base[n], n the sign and the 8 exponent bits
HalfBase(n) ==
    LET e    == (n % 256) - 127
        sign == IF n >= 256 THEN 32768 ELSE 0
    IN  IF e < 0 - 24 THEN sign
        ELSE IF e < 0 - 14 THEN BitOr(1024 \div 2^((0 - e) - 14), sign)
        ELSE IF e <= 15 THEN BitOr((e + 15) * 1024, sign)
        ELSE BitOr(31744, sign)

\* FloatToHalfConv::shft[n]
HalfShft(n) ==
    LET e == (n % 256) - 127
    IN  IF e < 0 - 24 THEN 24
        ELSE IF e < 0 - 14 THEN (0 - e) - 2
        ELSE IF e <= 15 THEN 12
        ELSE IF e < 128 THEN 24
        ELSE 12

\* utils::halfIsNaN
HalfIsNaN(val) == (val % 32768) # 31744 /\ ((val \div 1024) % 32) = 31

\* utils::halfIsInf
HalfIsInf(val) == (val % 32768) = 31744

\* FloatToHalfConv::convert, utils::floatToHalf
FloatToHalf(f) ==
    LET sExp8 == f.s * 256 + f.e
        mnt11 == f.m \div 2^HalfShft(sExp8)
    IN  (BitOr(HalfBase(sExp8), mnt11 \div 2) + (mnt11 % 2)) % 65536

\* HalfToFloatConv::genForSub, in units of 2^13 (every table entry of the
\* conversion is a multiple of 2^13, and 2^32 is 2^19 of them)
RECURSIVE GenForSubLoop(_, _)
GenForSubLoop(exp, man) ==
    IF (man \div 1024) % 2 = 1 THEN [exp |-> exp, man |-> man]
    ELSE GenForSubLoop((exp - 1024) % 524288, (man * 2) % 524288)

GenForSub(bits) ==
    IF bits # 0
    THEN LET x == GenForSubLoop(0, bits)
         IN  BitOr((x.exp + 115712) % 524288, x.man - 1024 * ((x.man \div 1024) % 2))
    ELSE 0

\* HalfToFloatConv::genForNrm, in units of 2^13
GenForNrm(bits) == BitOr(114688, bits)

\* exps[n] without the entries of the infinities and NaNs, in units of 2^13
HalfExpsNoInf(n) ==
    IF n = 0 THEN 0
    ELSE IF n = 32 THEN 262144
    ELSE IF n < 32 THEN n * 1024
    ELSE BitOr((n - 32) * 1024, 262144)

\* HalfToFloatConv::exps[n], in units of 2^13
HalfExps(n) ==
    IF n = 0 THEN 0
    ELSE IF n = 32 THEN 262144
    ELSE IF n = 31 THEN 146432
    ELSE IF n = 63 THEN 408576
    ELSE IF n < 32 THEN n * 1024
    ELSE BitOr((n - 32) * 1024, 262144)

\* HalfToFloatConv::convert, utils::halfToFloat
HalfToFloat(val) ==
    LET n == val \div 1024
        u == (HalfExps(n)
              + (IF n % 32 = 0 THEN GenForSub(val % 1024)
                               ELSE GenForNrm(val % 1024))) % 524288
    IN  F32(u \div 262144, (u \div 1024) % 256, (u % 1024) * 8192)

(***************************************************************************)
(* The scalar codec of vertexpacker.cpp.                                   *)
(***************************************************************************)
INT8_MIN   == 0 - 128
INT8_MAX   == 127
UINT8_MAX  == 255
INT16_MIN  == 0 - 32768
INT16_MAX  == 32767
UINT16_MAX == 65535
INT32_MAX  == 2147483647
INT32_MIN  == (0 - 2147483647) - 1

\* clamp<T>
Clamp(val, min, max) ==
    LET lo == IF val < min THEN min ELSE val
    IN  IF max < lo THEN max ELSE lo

\* encodeSignedLegacy<Bits> with the bias of one forgotten
EncodeSignedLegacyNoBias(val, Bits) ==
    CRound(FHalve(FMulInt(val, 2^Bits - 1)))

\* encodeSignedLegacy<Bits>
EncodeSignedLegacy(val, Bits) ==
    CRound(FHalve(FAddInt(FMulInt(val, 2^Bits - 1), 0 - 1)))

\* decodeSignedLegacy<Bits>
DecodeSignedLegacy(val, Bits) == FDivInt(FromInt(2 * val + 1), 2^Bits - 1)

\* encodeSignedModern<Bits>
EncodeSignedModern(val, Bits) == CRound(FMulInt(val, 2^(Bits - 1) - 1))

\* decodeSignedModern<Bits> that loses the lowest bit of the stored value
DecodeSignedModernCoarse(val, Bits) ==
    FDivInt(FromInt(2 * (val \div 2)), 2^(Bits - 1) - 1)

\* decodeSignedModern<Bits>
DecodeSignedModern(val, Bits) == FDivInt(FromInt(val), 2^(Bits - 1) - 1)

\* the bits of a float read as int32_t (the union in the default branches)
FloatBits(f) ==
    IF f.s = 1
    THEN ((f.e * 8388608 + f.m) - 1073741824) - 1073741824
    ELSE f.e * 8388608 + f.m

\* encodeLegacy(float, Storage)
EncodeLegacy(val, type) ==
    IF type = EXCLUDE THEN 0
    ELSE IF type = SINT08N
        THEN Clamp(EncodeSignedLegacy(val, 8), INT8_MIN, INT8_MAX)
    ELSE IF type = SINT08C THEN Clamp(CRound(val), INT8_MIN, INT8_MAX)
    ELSE IF type = UINT08N THEN Clamp(CRound(val) * UINT8_MAX, 0, UINT8_MAX)
    ELSE IF type = UINT08C THEN Clamp(CRound(val), 0, UINT8_MAX)
    ELSE IF type = SINT16N
        THEN Clamp(EncodeSignedLegacy(val, 16), INT16_MIN, INT16_MAX)
    ELSE IF type = SINT16C THEN Clamp(CRound(val), INT16_MIN, INT16_MAX)
    ELSE IF type = UINT16N THEN Clamp(CRound(val) * UINT16_MAX, 0, UINT16_MAX)
    ELSE IF type = UINT16C THEN Clamp(CRound(val), 0, UINT16_MAX)
    ELSE IF type = FLOAT16 THEN FloatToHalf(val)
    ELSE IF type = SINT32C THEN Clamp(CRound(val), INT32_MIN, INT32_MAX)
    ELSE IF type = UINT32C THEN (IF CRound(val) < 0 THEN 0 ELSE CRound(val))
    ELSE FloatBits(val)

\* decodeLegacy
DecodeLegacy(val, type) ==
    IF type = EXCLUDE THEN F32(0, 0, 0)
    ELSE IF type = SINT08N
        THEN DecodeSignedLegacy(Clamp(val, INT8_MIN, INT8_MAX), 8)
    ELSE IF type = SINT08C THEN FromInt(Clamp(val, INT8_MIN, INT8_MAX))
    ELSE IF type = UINT08N
        THEN FDivInt(FromInt(Clamp(val, 0, UINT8_MAX)), UINT8_MAX)
    ELSE IF type = UINT08C THEN FromInt(Clamp(val, 0, UINT8_MAX))
    ELSE IF type = SINT16N
        THEN DecodeSignedLegacy(Clamp(val, INT16_MIN, INT16_MAX), 16)
    ELSE IF type = SINT16C THEN FromInt(Clamp(val, INT16_MIN, INT16_MAX))
    ELSE IF type = UINT16N
        THEN FDivInt(FromInt(Clamp(val, 0, UINT16_MAX)), UINT16_MAX)
    ELSE IF type = UINT16C THEN FromInt(Clamp(val, 0, UINT16_MAX))
    ELSE IF type = FLOAT16 THEN HalfToFloat(val % 65536)
    ELSE F32(0, 0, 0)

\* encodeModern for the signed normalised types with the clamps of
\* encodeLegacy, which let the most negative integer through
EncodeModernLegacyClamp(val, type) ==
    IF type = SINT08N
    THEN Clamp(EncodeSignedModern(val, 8), INT8_MIN, INT8_MAX)
    ELSE Clamp(EncodeSignedModern(val, 16), INT16_MIN, INT16_MAX)

\* encodeModern(float, Storage)
EncodeModern(val, type) ==
    IF type = EXCLUDE THEN 0
    ELSE IF type = SINT08N
        THEN Clamp(EncodeSignedModern(val, 8), 0 - INT8_MAX, INT8_MAX)
    ELSE IF type = SINT08C THEN Clamp(CRound(val), INT8_MIN, INT8_MAX)
    ELSE IF type = UINT08N THEN Clamp(CRound(val) * UINT8_MAX, 0, UINT8_MAX)
    ELSE IF type = UINT08C THEN Clamp(CRound(val), 0, UINT8_MAX)
    ELSE IF type = SINT16N
        THEN Clamp(EncodeSignedModern(val, 16), 0 - INT16_MAX, INT16_MAX)
    ELSE IF type = SINT16C THEN Clamp(CRound(val), INT16_MIN, INT16_MAX)
    ELSE IF type = UINT16N THEN Clamp(CRound(val) * UINT16_MAX, 0, UINT16_MAX)
    ELSE IF type = UINT16C THEN Clamp(CRound(val), 0, UINT16_MAX)
    ELSE IF type = FLOAT16 THEN FloatToHalf(val)
    ELSE IF type = SINT32C THEN Clamp(CRound(val), INT32_MIN, INT32_MAX)
    ELSE IF type = UINT32C THEN (IF CRound(val) < 0 THEN 0 ELSE CRound(val))
    ELSE FloatBits(val)

\* decodeModern
DecodeModern(val, type) ==
    IF type = EXCLUDE THEN F32(0, 0, 0)
    ELSE IF type = SINT08N
        THEN DecodeSignedModern(Clamp(val, 0 - INT8_MAX, INT8_MAX), 8)
    ELSE IF type = SINT08C THEN FromInt(Clamp(val, INT8_MIN, INT8_MAX))
    ELSE IF type = UINT08N
        THEN FDivInt(FromInt(Clamp(val, 0, UINT8_MAX)), UINT8_MAX)
    ELSE IF type = UINT08C THEN FromInt(Clamp(val, 0, UINT8_MAX))
    ELSE IF type = SINT16N
        THEN DecodeSignedModern(Clamp(val, INT16_MIN, INT16_MAX), 16)
    ELSE IF type = SINT16C THEN FromInt(Clamp(val, 0 - INT16_MAX, INT16_MAX))
    ELSE IF type = UINT16N
        THEN FDivInt(FromInt(Clamp(val, 0, UINT16_MAX)), UINT16_MAX)
    ELSE IF type = UINT16C THEN FromInt(Clamp(val, 0, UINT16_MAX))
    ELSE IF type = FLOAT16 THEN HalfToFloat(val % 65536)
    ELSE F32(0, 0, 0)

\* encodeLegacy(int, Storage)
EncodeLegacyInt(val, type) ==
    IF type = SINT08C THEN Clamp(val, INT8_MIN, INT8_MAX)
    ELSE IF type = UINT08C THEN Clamp(val, 0, UINT8_MAX)
    ELSE IF type = SINT16C THEN Clamp(val, INT16_MIN, INT16_MAX)
    ELSE IF type = UINT16C THEN Clamp(val, 0, UINT16_MAX)
    ELSE IF type = SINT32C THEN Clamp(val, INT32_MIN, INT32_MAX)
    ELSE IF type = UINT32C THEN val
    ELSE EncodeLegacy(FromInt(val), type)

\* encodeModern(int, Storage)
EncodeModernInt(val, type) ==
    IF type = SINT08C THEN Clamp(val, INT8_MIN, INT8_MAX)
    ELSE IF type = UINT08C THEN Clamp(val, 0, UINT8_MAX)
    ELSE IF type = SINT16C THEN Clamp(val, INT16_MIN, INT16_MAX)
    ELSE IF type = UINT16C THEN Clamp(val, 0, UINT16_MAX)
    ELSE IF type = SINT32C THEN Clamp(val, INT32_MIN, INT32_MAX)
    ELSE IF type = UINT32C THEN val
    ELSE EncodeModern(FromInt(val), type)

(***************************************************************************)
(* VertexPacker: root is index 0 of mem, next and over are indices. The    *)
(* memory behind the buffer (the indices from over on) is part of mem, and *)
(* fill is what the memory held before the packer was created.             *)
(***************************************************************************)
VP_FAILED    == TRUE
VP_SUCCEEDED == FALSE

\* VertexPacker::Options (bit masks of VertexPacker::opts)
VP_OPTS_DEFAULT       == 0
VP_OPTS_BIG_ENDIAN    == 1
VP_OPTS_SIGNED_LEGACY == 2

\* (opts & mask) != 0 for a one bit mask
HasMask(opts, mask) == (opts \div mask) % 2 = 1

\* the bytes of memory modelled behind the end of the buffer
Slack == 4

\* VertexPacker::VertexPacker
NewPacker(size, opts, fill) ==
    [next |-> 0, over |-> size, opts |-> opts, fill |-> fill,
     mem |-> [i \in 0..(size + Slack - 1) |-> fill]]

\* VertexPacker::size
Size(p) == p.next

\* VertexPacker::hasFreeSpace that wants a byte to stay free
HasFreeSpaceStrict(p, type) == p.next + Bytes(type) < p.over

\* VertexPacker::hasFreeSpace that lets the last byte run over
HasFreeSpaceOffByOne(p, type) == p.next + Bytes(type) <= p.over + 1

\* VertexPacker::hasFreeSpace
HasFreeSpace(p, type) == p.next + Bytes(type) <= p.over

\* *next++ = b
Put(p, b) == [p EXCEPT !.mem[p.next] = b, !.next = @ + 1]

\* (temp >> shift) & 0xFF on an int32_t
ByteOf(temp, shift) == (temp \div 2^shift) % 256

\* the switch of add that writes the low byte first whatever the options
EmitLittleOnly(p, temp, type) ==
    IF Bytes(type) = 1 THEN Put(p, ByteOf(temp, 0))
    ELSE IF Bytes(type) = 2
    THEN Put(Put(p, ByteOf(temp, 0)), ByteOf(temp, 8))
    ELSE Put(Put(Put(Put(p, ByteOf(temp, 0)), ByteOf(temp, 8)),
                 ByteOf(temp, 16)), ByteOf(temp, 24))

\* switch (type.bytes()) { ... } of both add overloads
Emit(p, temp, type) ==
    IF Bytes(type) = 1 THEN Put(p, ByteOf(temp, 0))
    ELSE IF Bytes(type) = 2
    THEN IF ~HasMask(p.opts, VP_OPTS_BIG_ENDIAN)
         THEN Put(Put(p, ByteOf(temp, 0)), ByteOf(temp, 8))
         ELSE Put(Put(p, ByteOf(temp, 8)), ByteOf(temp, 0))
    ELSE IF ~HasMask(p.opts, VP_OPTS_BIG_ENDIAN)
         THEN Put(Put(Put(Put(p, ByteOf(temp, 0)), ByteOf(temp, 8)),
                      ByteOf(temp, 16)), ByteOf(temp, 24))
         ELSE Put(Put(Put(Put(p, ByteOf(temp, 24)), ByteOf(temp, 16)),
                      ByteOf(temp, 8)), ByteOf(temp, 0))

\* VertexPacker::add(float, Storage) that writes what fits before it fails
AddPartial(p, data, type) ==
    IF HasFreeSpace(p, type)
    THEN [p |-> IF IsSet(type) 
                THEN Emit(p, IF ~HasMask(p.opts, VP_OPTS_SIGNED_LEGACY)
                             THEN EncodeModern(data, type)
                             ELSE EncodeLegacy(data, type), type)
                ELSE p,
          failed |-> VP_SUCCEEDED]
    ELSE [p |-> IF p.next < p.over THEN Put(p, 0) ELSE p,
          failed |-> VP_FAILED]

\* VertexPacker::add(float, Storage); the packer after the call and the result
Add(p, data, type) ==
    IF HasFreeSpace(p, type)
    THEN [p |-> IF IsSet(type)
                THEN Emit(p, IF ~HasMask(p.opts, VP_OPTS_SIGNED_LEGACY)
                             THEN EncodeModern(data, type)
                             ELSE EncodeLegacy(data, type), type)
                ELSE p,
          failed |-> VP_SUCCEEDED]
    ELSE [p |-> p, failed |-> VP_FAILED]

\* VertexPacker::add(int, Storage)
AddInt(p, data, type) ==
    IF HasFreeSpace(p, type)
    THEN IF IsSet(type)
         THEN IF type \in {SINT08C, UINT08C, SINT16C, UINT16C, SINT32C, UINT32C}
              THEN [p |-> Emit(p, IF ~HasMask(p.opts, VP_OPTS_SIGNED_LEGACY)
                                  THEN EncodeModernInt(data, type)
                                  ELSE EncodeLegacyInt(data, type), type),
                    failed |-> VP_SUCCEEDED]
              ELSE Add(p, FromInt(data), type)
         ELSE [p |-> p, failed |-> VP_SUCCEEDED]
    ELSE [p |-> p, failed |-> VP_FAILED]

\* for (n = 0; n < bytes; n++) *next++ = 0
RECURSIVE Pad(_, _)
Pad(p, bytes) == IF bytes = 0 THEN p ELSE Pad(Put(p, 0), bytes - 1)

\* VertexPacker::align that subtracts the base without the test used >= base
AlignAlwaysSubtract(p, base) ==
    LET bytes == (Size(p) - base) % 4
    IN  IF bytes # 0
        THEN IF p.next + (4 - bytes) <= p.over
             THEN [p |-> Pad(p, 4 - bytes), failed |-> VP_SUCCEEDED]
             ELSE [p |-> p, failed |-> VP_FAILED]
        ELSE [p |-> p, failed |-> VP_SUCCEEDED]

\* VertexPacker::align
Align(p, base) ==
    LET used  == IF Size(p) >= base THEN Size(p) - base ELSE Size(p)
        bytes == used % 4
    IN  IF bytes # 0
        THEN IF p.next + (4 - bytes) <= p.over
             THEN [p |-> Pad(p, 4 - bytes), failed |-> VP_SUCCEEDED]
             ELSE [p |-> p, failed |-> VP_FAILED]
        ELSE [p |-> p, failed |-> VP_SUCCEEDED]

\* VertexPacker::rewind
Rewind(p) == [p EXCEPT !.next = 0]

(***************************************************************************)
(* Vec2::store, Vec3::store and the store helper of bufferlayout.cpp. None *)
(* of them, nor writeVertex, looks at what a call returned other than to   *)
(* or it into failed, so each is the sequence of the calls it makes on the *)
(* packer; Run makes the calls of a sequence on a pair w of the packer and *)
(* the failures or-ed so far.                                              *)
(***************************************************************************)
\* dest.add(data, type), packer.align(base), and entering an attribute's
\* block of writeVertex (which makes no call)
AddCall(data, type) ==
    [op |-> "add", data |-> data, type |-> type, base |-> 0, attr |-> ""]
\* packer.add(data, type) for an int or an unsigned
AddIntCall(data, type) ==
    [op |-> "addInt", data |-> data, type |-> type, base |-> 0, attr |-> ""]
AlignCall(base) ==
    [op |-> "align", data |-> F32(0, 0, 0), type |-> EXCLUDE,
     base |-> base, attr |-> ""]
EnterBlock(attr) ==
    [op |-> "enter", data |-> F32(0, 0, 0), type |-> EXCLUDE,
     base |-> 0, attr |-> attr]

\* vec.store(dest, type) for a Vec2
Vec2Store(vec, type) == <<AddCall(vec[1], type), AddCall(vec[2], type)>>

\* vec.store(dest, type) for a Vec3
Vec3Store(vec, type) ==
    <<AddCall(vec[1], type), AddCall(vec[2], type), AddCall(vec[3], type)>>

\* vec.store(dest, type) for a Vec4
Vec4Store(vec, type) ==
    <<AddCall(vec[1], type), AddCall(vec[2], type), AddCall(vec[3], type),
      AddCall(vec[4], type)>>

\* store(vec, dest, type, xy)
StoreXY(vec, type, xy) ==
    IF xy THEN Vec2Store(vec, type) ELSE Vec3Store(vec, type)

\* failed = <call>: the result of the last call alone
RunCallLastOnly(w, c) ==
    IF c.op = "enter" THEN [w EXCEPT !.at[c.attr] = Size(w.p)]
    ELSE LET r == IF c.op = "add" THEN Add(w.p, c.data, c.type)
                  ELSE IF c.op = "addInt" THEN AddInt(w.p, c.data, c.type)
                  ELSE Align(w.p, c.base)
         IN  [w EXCEPT !.p = r.p, !.failed = r.failed]

\* failed |= <call>; at keeps the size() at which each block was entered
RunCall(w, c) ==
    IF c.op = "enter" THEN [w EXCEPT !.at[c.attr] = Size(w.p)]
    ELSE LET r == IF c.op = "add" THEN Add(w.p, c.data, c.type)
                  ELSE IF c.op = "addInt" THEN AddInt(w.p, c.data, c.type)
                  ELSE Align(w.p, c.base)
         IN  [w EXCEPT !.p = r.p, !.failed = w.failed \/ r.failed]

\* the calls of a sequence, one after the other
RECURSIVE Run(_, _)
Run(w, calls) ==
    IF calls = <<>> THEN w ELSE Run(RunCall(w, Head(calls)), Tail(calls))

(***************************************************************************)
(* ToolOptions: the option ordinals (bits of ToolOptions::opts, kept here  *)
(* as the set of the ordinals whose bit is set) and the five types.        *)
(***************************************************************************)
OPTS_POSITIONS_SCALE == 1
OPTS_NORMALS_ENCODED == 4
OPTS_TANGENTS_PACKED == 7
OPTS_BITANGENTS_SIGN == 8

\* O2B_HAS_OPT
HasOpt(var, ordinal) == ordinal \in var

\* ToolOptions::ToolOptions
DefaultOptions ==
    [posn |-> FLOAT32, text |-> FLOAT32, norm |-> FLOAT32,
     tans |-> EXCLUDE, idxs |-> UINT16C, opts |-> {}]

\* parseType(const char*): b, s, i, h, f, n|x, ub, us, ui
ParseTypes ==
    {SINT08N, SINT16N, SINT32C, FLOAT16, FLOAT32, EXCLUDE,
     UINT08N, UINT16N, UINT32C}

\* the position branch of ToolOptions::fixUp
FixUpPosn(o) ==
    IF IsSet(o.posn)
    THEN IF ~HasOpt(o.opts, OPTS_POSITIONS_SCALE)
         THEN [o EXCEPT !.posn =
                  IF @ = SINT08N THEN SINT08C
                  ELSE IF @ = UINT08N THEN UINT08C
                  ELSE IF @ = SINT16N THEN SINT16C
                  ELSE IF @ = UINT16N THEN UINT16C
                  ELSE @]
         ELSE o
    ELSE [o EXCEPT !.opts = @ \ {OPTS_POSITIONS_SCALE}]

\* the tangent branch of fixUp that never asks for the tangents to be packed
FixUpTansNoPacking(o) ==
    IF IsSet(o.tans)
    THEN o
    ELSE [o EXCEPT !.opts = @ \ {OPTS_BITANGENTS_SIGN}]

\* the tangent branch of ToolOptions::fixUp
FixUpTans(o) ==
    IF IsSet(o.tans)
    THEN IF HasOpt(o.opts, OPTS_NORMALS_ENCODED) /\ o.norm = o.tans
            /\ Bytes(o.norm) <= 2
         THEN [o EXCEPT !.opts = @ \cup {OPTS_TANGENTS_PACKED}]
         ELSE o
    ELSE [o EXCEPT !.opts = @ \ {OPTS_BITANGENTS_SIGN}]

\* the index branch of fixUp without the case of SINT32C
FixUpIdxsNoInt(o) ==
    [o EXCEPT !.idxs =
        IF @ \in {SINT08N, SINT08C, UINT08N} THEN UINT08C
        ELSE IF @ \in {SINT16N, SINT16C, UINT16N} THEN UINT16C
        ELSE @]

\* the index branch of ToolOptions::fixUp; FLOAT16 and FLOAT32 end in help()
FixUpIdxs(o) ==
    [o EXCEPT !.idxs =
        IF @ \in {SINT08N, SINT08C, UINT08N} THEN UINT08C
        ELSE IF @ \in {SINT16N, SINT16C, UINT16N} THEN UINT16C
        ELSE IF @ = SINT32C THEN UINT32C
        ELSE @]

FixUpExits(o) == o.idxs \in {FLOAT16, FLOAT32}

\* ToolOptions::fixUp
FixUpOptions(o) == FixUpIdxs(FixUpTans(FixUpPosn(o)))

(***************************************************************************)
(* BufferLayout: Packing, AttrParams, tryPacking and the constructor.      *)
(***************************************************************************)
PACK_NONE   == 0
PACK_POSN_W == 1
PACK_TEX0_Z == 2
PACK_NORM_Z == 3
PACK_NORM_W == 4
PACK_TANS_Z == 5
PACK_TANS_W == 6

Packing == PACK_NONE..PACK_TANS_W

\* AttrParams::AttrParams
NoAttr ==
    [storage |-> EXCLUDE, offset |-> 0, components |-> 0, unaligned |-> FALSE]

\* AttrParams::validate
Validate(attr) ==
    IF IsSet(attr.storage)
    THEN [attr EXCEPT !.unaligned =
             ((attr.components * Bytes(attr.storage)) % 4) # 0]
    ELSE attr

\* AttrParams::fill that forgets the start offset
FillAtZero(attrType, startOff, numComps) ==
    Validate([storage |-> attrType, offset |-> 0,
              components |-> numComps, unaligned |-> FALSE])

\* AttrParams::fill
Fill(attrType, startOff, numComps) ==
    Validate([storage |-> attrType, offset |-> startOff,
              components |-> numComps, unaligned |-> FALSE])

\* AttrParams::getAlignedSize without the rounding up
GetUnalignedSize(attr) == attr.components * Bytes(attr.storage)

\* AttrParams::getAlignedSize
GetAlignedSize(attr) ==
    ((attr.components * Bytes(attr.storage) + 3) \div 4) * 4

\* BufferLayout::tryPacking; the pair (what, attr) after the call
TryPacking(what, attr, numComps, where, force) ==
    IF what = PACK_NONE
       /\ IsSet(attr.storage)
       /\ (attr.components + numComps) <= 4
       /\ (attr.unaligned \/ force)
    THEN [what |-> where,
          attr |-> Validate([attr EXCEPT !.components = @ + numComps])]
    ELSE [what |-> what, attr |-> attr]

\* the members of BufferLayout before the constructor's body runs, with the
\* constructor's local offset
EmptyLayout ==
    [packTans |-> PACK_NONE, packSign |-> PACK_NONE,
     posn |-> NoAttr, tex0 |-> NoAttr, norm |-> NoAttr,
     tans |-> NoAttr, btan |-> NoAttr, stride |-> 0, offset |-> 0]

\* the three flags the constructor reads first
HasEncNormals(o) == HasOpt(o.opts, OPTS_NORMALS_ENCODED)
HasBitansSign(o) == HasOpt(o.opts, OPTS_BITANGENTS_SIGN) /\ IsSet(o.tans)
HasTansPacked(o) == HasOpt(o.opts, OPTS_TANGENTS_PACKED) /\ IsSet(o.tans)

\* if (opts.posn) { ... }
PlanPosn(o, b) ==
    IF IsSet(o.posn)
    THEN LET a == Fill(o.posn, b.offset, 3)
             t == IF HasBitansSign(o) /\ IsSigned(o.posn)
                  THEN TryPacking(b.packSign, a, 1, PACK_POSN_W, FALSE)
                  ELSE [what |-> b.packSign, attr |-> a]
         IN  [b EXCEPT !.posn = t.attr, !.packSign = t.what,
                       !.offset = @ + GetAlignedSize(t.attr)]
    ELSE b

\* if (opts.text) { ... }
PlanTex0(o, b) ==
    IF IsSet(o.text)
    THEN LET a == Fill(o.text, b.offset, 2)
             t == IF HasBitansSign(o) /\ IsSigned(o.text)
                  THEN TryPacking(b.packSign, a, 1, PACK_TEX0_Z, FALSE)
                  ELSE [what |-> b.packSign, attr |-> a]
         IN  [b EXCEPT !.tex0 = t.attr, !.packSign = t.what,
                       !.offset = @ + GetAlignedSize(t.attr)]
    ELSE b

\* the normal block with the sign recorded in the normal next to the tangents
PlanNormSignToo(o, b) ==
    IF IsSet(o.norm)
    THEN LET a == Fill(o.norm, b.offset, IF HasEncNormals(o) THEN 2 ELSE 3)
             t == TryPacking(b.packTans, a, 2, PACK_NORM_Z, TRUE)
         IN  [b EXCEPT !.norm = t.attr, !.packTans = t.what,
                       !.packSign = IF HasBitansSign(o) THEN PACK_NORM_Z
                                    ELSE @,
                       !.offset = @ + GetAlignedSize(t.attr)]
    ELSE b

\* if (opts.norm) { ... }
PlanNorm(o, b) ==
    IF IsSet(o.norm)
    THEN LET a == Fill(o.norm, b.offset, IF HasEncNormals(o) THEN 2 ELSE 3)
         IN  IF HasTansPacked(o) /\ HasEncNormals(o)
             THEN LET t == TryPacking(b.packTans, a, 2, PACK_NORM_Z, TRUE)
                  IN  [b EXCEPT !.norm = t.attr, !.packTans = t.what,
                                !.offset = @ + GetAlignedSize(t.attr)]
             ELSE LET t == IF HasBitansSign(o)
                           THEN TryPacking(b.packSign, a, 1,
                                    IF HasEncNormals(o) THEN PACK_NORM_Z
                                                        ELSE PACK_NORM_W,
                                    FALSE)
                           ELSE [what |-> b.packSign, attr |-> a]
                  IN  [b EXCEPT !.norm = t.attr, !.packSign = t.what,
                                !.offset = @ + GetAlignedSize(t.attr)]
    ELSE b

\* the tangent block that fills the tangents whether or not they were packed
PlanTansAlways(o, b) ==
    IF IsSet(o.tans)
    THEN LET a == Fill(o.tans, b.offset, IF HasEncNormals(o) THEN 2 ELSE 3)
         IN  [b EXCEPT !.tans = a, !.offset = @ + GetAlignedSize(a)]
    ELSE b

\* if (opts.tans) { if (packTans == PACK_NONE) { ... } ... }
PlanTans(o, b) ==
    IF IsSet(o.tans) /\ b.packTans = PACK_NONE
    THEN LET a == Fill(o.tans, b.offset, IF HasEncNormals(o) THEN 2 ELSE 3)
             t == IF HasBitansSign(o)
                  THEN TryPacking(b.packSign, a, 1,
                           IF HasEncNormals(o) THEN PACK_TANS_Z
                                               ELSE PACK_TANS_W,
                           FALSE)
                  ELSE [what |-> b.packSign, attr |-> a]
         IN  [b EXCEPT !.tans = t.attr, !.packSign = t.what,
                       !.offset = @ + GetAlignedSize(t.attr)]
    ELSE b

\* if (opts.tans) { ... if (packSign == PACK_NONE) { ... } }
PlanBtan(o, b) ==
    IF IsSet(o.tans) /\ b.packSign = PACK_NONE
    THEN LET a == Fill(o.tans, b.offset,
                       IF HasBitansSign(o) THEN 1
                       ELSE IF HasEncNormals(o) THEN 2 ELSE 3)
         IN  [b EXCEPT !.btan = a, !.offset = @ + GetAlignedSize(a)]
    ELSE b

\* BufferLayout::BufferLayout
NewBufferLayout(o) ==
    LET b == PlanBtan(o, PlanTans(o, PlanNorm(o, PlanTex0(o,
                 PlanPosn(o, EmptyLayout)))))
    IN  [b EXCEPT !.stride = b.offset]

(***************************************************************************)
(* BufferLayout::writeVertex, one block per attribute: the calls the block *)
(* makes on the packer, in their order.                                    *)
(***************************************************************************)
\* if (<attr>.unaligned) { failed |= packer.align(base); }
AlignIf(attr, base) == IF attr.unaligned THEN <<AlignCall(base)>> ELSE <<>>

\* if (posn) { ... }
WritePosn(b, vertex, base) ==
    IF IsSet(b.posn.storage)
    THEN Vec3Store(vertex.posn, b.posn.storage)
         \o (IF b.packSign = PACK_POSN_W
             THEN <<AddCall(vertex.sign, b.posn.storage)>> ELSE <<>>)
         \o AlignIf(b.posn, base)
    ELSE <<>>

\* if (tex0) { ... }
WriteTex0(b, vertex, base) ==
    IF IsSet(b.tex0.storage)
    THEN Vec2Store(vertex.tex0, b.tex0.storage)
         \o (IF b.packSign = PACK_TEX0_Z
             THEN <<AddCall(vertex.sign, b.tex0.storage)>> ELSE <<>>)
         \o AlignIf(b.tex0, base)
    ELSE <<>>

\* if (norm) { ... }
WriteNorm(b, vertex, base) ==
    IF IsSet(b.norm.storage)
    THEN (IF b.packTans = PACK_NORM_Z
          THEN Vec2Store(vertex.norm, b.norm.storage)
               \o Vec2Store(vertex.tans, b.norm.storage)
          ELSE IF b.packSign = PACK_NORM_Z
          THEN Vec2Store(vertex.norm, b.norm.storage)
               \o <<AddCall(vertex.sign, b.norm.storage)>>
          ELSE StoreXY(vertex.norm, b.norm.storage, b.norm.components = 2)
               \o (IF b.packSign = PACK_NORM_W
                   THEN <<AddCall(vertex.sign, b.norm.storage)>> ELSE <<>>))
         \o AlignIf(b.norm, base)
    ELSE <<>>

\* if (tans) { ... }
WriteTans(b, vertex, base) ==
    IF IsSet(b.tans.storage) /\ b.packTans = PACK_NONE
    THEN StoreXY(vertex.tans, b.tans.storage, b.tans.components = 2)
         \o AlignIf(b.tans, base)
    ELSE <<>>

\* if (btan) { ... }
WriteBtan(b, vertex, base) ==
    IF IsSet(b.btan.storage) /\ b.packSign = PACK_NONE
    THEN StoreXY(vertex.btan, b.btan.storage, b.btan.components = 2)
         \o AlignIf(b.btan, base)
    ELSE <<>>

\* BufferLayout::writeVertex: the packer after the call, the result, and at,
\* the size() of the packer as each attribute's block was entered
WriteVertexOn(b, p, vertex, base) ==
    Run([p |-> p, failed |-> VP_SUCCEEDED,
         at |-> [posn |-> 0, tex0 |-> 0, norm |-> 0, tans |-> 0, btan |-> 0]],
        <<EnterBlock("posn")>> \o WritePosn(b, vertex, base)
        \o <<EnterBlock("tex0")>> \o WriteTex0(b, vertex, base)
        \o <<EnterBlock("norm")>> \o WriteNorm(b, vertex, base)
        \o <<EnterBlock("tans")>> \o WriteTans(b, vertex, base)
        \o <<EnterBlock("btan")>> \o WriteBtan(b, vertex, base))

(***************************************************************************)
(* Bounds and inputs of the model.                                         *)
(***************************************************************************)
\* vertices written by one run
MaxVerts == 2

\* bytes of the buffer the vertices are written to (the largest stride is 56)
VertexBufSize == 112

\* bytes of the buffer of the packer of SpecPacker
PackerSize == 4

\* the largest base handed to align
MaxBase == 3

\* 1.0f, -1.0f, 0.5f, 0.0f
FOne      == F32(0, 127, 0)
FMinusOne == F32(1, 127, 0)
FHalf     == F32(0, 126, 0)
FNought   == F32(0, 0, 0)

\* the mesh: the vertex written as the n-th, with unit normal, tangent and
\* bitangent and a sign of +1 or -1
MeshVertex(n) ==
    IF n % 2 = 0
    THEN [posn |-> <<FOne, FMinusOne, FHalf>>, tex0 |-> <<FHalf, FOne>>,
          norm |-> <<FNought, FNought, FOne>>,
          tans |-> <<FOne, FNought, FNought>>,
          btan |-> <<FNought, FOne, FNought>>, sign |-> FOne]
    ELSE [posn |-> <<FMinusOne, FHalf, FOne>>, tex0 |-> <<FOne, FNought>>,
          norm |-> <<FOne, FNought, FNought>>,
          tans |-> <<FNought, FNought, FOne>>,
          btan |-> <<FNought, FOne, FNought>>, sign |-> FMinusOne]

\* the values and the types handed to add: a float and an int, and for each
\* width in bytes a type of either overload's own branch
FloatData == {FOne}
IntData   == {258}
PackerTypes ==
    {EXCLUDE, SINT08N, UINT08C, SINT16N, UINT16C, SINT32C, FLOAT32}

NoAt == [posn |-> 0, tex0 |-> 0, norm |-> 0, tans |-> 0, btan |-> 0]

\* what the last call returned, with its arguments and the size() before it
NoRet ==
    [op |-> "none", failed |-> FALSE, type |-> EXCLUDE, base |-> 0,
     size0 |-> 0, at |-> NoAt]

\* the round trip of runTests: the stored integer n, the float f decoded from
\* it, the integer i encoded from f, and how far the round trip has come
NoCodec == [type |-> EXCLUDE, legacy |-> FALSE, n |-> 0, f |-> FNought,
            i |-> 0, step |-> "none"]

(***************************************************************************)
(* Spec: main() up to the vertices. parseArgs takes the switches one by    *)
(* one and ends in fixUp; then the layout is planned and vertices written. *)
(* A later switch overwrites an earlier one, so the command lines taken    *)
(* are those with the switches in the order -p -u -n -t -s -o -b, which    *)
(* leave every value the options can have; pc names the switch to come.    *)
(***************************************************************************)
Init ==
    /\ pc = "-p"
    /\ tool = DefaultOptions
    /\ layout = EmptyLayout
    /\ packer = NewPacker(0, VP_OPTS_DEFAULT, 0)
    /\ nverts = 0
    /\ ret = NoRet
    /\ codec = NoCodec

\* parseNext: case 'p'
ParsePosn ==
    /\ pc = "-p"
    /\ \E t \in ParseTypes : tool' = [tool EXCEPT !.posn = t]
    /\ pc' = "-u"
    /\ UNCHANGED <<layout, packer, nverts, ret, codec>>

\* parseNext: case 'u'
ParseText ==
    /\ pc = "-u"
    /\ \E t \in ParseTypes : tool' = [tool EXCEPT !.text = t]
    /\ pc' = "-n"
    /\ UNCHANGED <<layout, packer, nverts, ret, codec>>

\* parseNext: case 'n'
ParseNorm ==
    /\ pc = "-n"
    /\ \E t \in ParseTypes : tool' = [tool EXCEPT !.norm = t]
    /\ pc' = "-t"
    /\ UNCHANGED <<layout, packer, nverts, ret, codec>>

\* parseNext: case 't'
ParseTans ==
    /\ pc = "-t"
    /\ \E t \in ParseTypes : tool' = [tool EXCEPT !.tans = t]
    /\ pc' = "flags"
    /\ UNCHANGED <<layout, packer, nverts, ret, codec>>

\* parseNext: case 's', case 'o', case 'b'
ParseFlag ==
    /\ pc = "flags"
    /\ \E f \in {OPTS_POSITIONS_SCALE, OPTS_NORMALS_ENCODED,
                 OPTS_BITANGENTS_SIGN} :
           /\ \A g \in tool.opts : g < f
           /\ tool' = [tool EXCEPT !.opts = @ \cup {f}]
    /\ UNCHANGED <<pc, layout, packer, nverts, ret, codec>>

\* parseArgs: the fixUp() that ends it
FixUp ==
    /\ pc = "flags"
    /\ tool' = FixUpOptions(tool)
    /\ pc' = IF FixUpExits(tool) THEN "exit" ELSE "fixed"
    /\ UNCHANGED <<layout, packer, nverts, ret, codec>>

\* BufferLayout layout(opts); VertexPacker packer(backing.data(), size, opts)
Plan ==
    /\ pc = "fixed"
    /\ layout' = NewBufferLayout(tool)
    /\ packer' = NewPacker(VertexBufSize, VP_OPTS_DEFAULT, 0)
    /\ pc' = "planned"
    /\ UNCHANGED <<tool, nverts, ret, codec>>

\* layout.writeVertex(packer, vertex) for the next vertex of the mesh
WriteVertex ==
    /\ pc = "planned"
    /\ nverts < MaxVerts
    /\ LET r == WriteVertexOn(layout, packer, MeshVertex(nverts), 0)
       IN  /\ packer' = r.p
           /\ ret' = [op |-> "writeVertex", failed |-> r.failed,
                      type |-> EXCLUDE, base |-> 0,
                      size0 |-> Size(packer), at |-> r.at]
    /\ nverts' = nverts + 1
    /\ UNCHANGED <<pc, tool, layout, codec>>

Next ==
    \/ ParsePosn \/ ParseText \/ ParseNorm \/ ParseTans \/ ParseFlag
    \/ FixUp \/ Plan \/ WriteVertex

Spec == Init /\ [][Next]_vars

(***************************************************************************)
(* SpecArgs: parseArgs over command lines with the switches in any order   *)
(* and any number, the -c shortcode among them. A shortcode is the hex     *)
(* argument of -c, kept as its eight digits, most significant first.       *)
(***************************************************************************)
\* the last of the option bits getAllOptions keeps: "the first 12 bits"
OPTS_LAST_USER == 11

\* O2B_VALIDATE_TYPE
ValidateType(type) == IF type <= FLOAT32 THEN type ELSE FLOAT32

\* (val >> shift) & 0xF of the shortcode val, for a shift that is a
\* multiple of four
HexField(val, shift) == val[Len(val) - (shift \div 4)]

\* val & ((1 << bits) - 1) as the set of the ordinals whose bit is set
LowBits(val, bits) ==
    {i \in 0..(bits - 1) : (HexField(val, 4 * (i \div 4)) \div 2^(i % 4)) % 2 = 1}

\* ToolOptions::setAllOptions
SetAllOptions(val) ==
    [opts |-> LowBits(val, OPTS_LAST_USER + 1),
     posn |-> ValidateType(HexField(val, OPTS_LAST_USER + 1 + 0)),
     text |-> ValidateType(HexField(val, OPTS_LAST_USER + 1 + 4)),
     norm |-> ValidateType(HexField(val, OPTS_LAST_USER + 1 + 8)),
     tans |-> ValidateType(HexField(val, OPTS_LAST_USER + 1 + 12)),
     idxs |-> ValidateType(HexField(val, OPTS_LAST_USER + 1 + 16))]

\* the shortcodes taken: 8C1CC090 (encoded normals, tangents packed, byte
\* normals, float tangents), 811CC010 (encoded normals, byte normals and
\* tangents), 8F5CC100 (bitangent sign, short normals, tangents 0xF),
\* C0CCC000 (float indices)
Shortcodes ==
    {<<8, 12, 1, 12, 12, 0, 9, 0>>, <<8, 1, 1, 12, 12, 0, 1, 0>>,
     <<8, 15, 5, 12, 12, 1, 0, 0>>, <<12, 0, 12, 12, 12, 0, 0, 0>>}

\* the types taken by -i: b, us, i, h, n
ArgsIdxTypes == {SINT08N, UINT16N, SINT32C, FLOAT16, EXCLUDE}

\* the types taken by -p, -u, -n and -t: n, b, s, f
ArgsTypes == {EXCLUDE, SINT08N, SINT16N, FLOAT32}

InitArgs ==
    /\ pc = "argv"
    /\ tool = DefaultOptions
    /\ layout = EmptyLayout
    /\ packer = NewPacker(0, VP_OPTS_DEFAULT, 0)
    /\ nverts = 0
    /\ ret = NoRet
    /\ codec = NoCodec

\* parseNext: case 'p', case 'u', case 'n', case 't'
ArgsType ==
    /\ pc = "argv"
    /\ \E a \in {"posn", "text", "norm", "tans"} : \E t \in ArgsTypes :
           tool' = [tool EXCEPT ![a] = t]
    /\ UNCHANGED <<pc, layout, packer, nverts, ret, codec>>

\* parseNext: case 'i'
ArgsIdxs ==
    /\ pc = "argv"
    /\ \E t \in ArgsIdxTypes : tool' = [tool EXCEPT !.idxs = t]
    /\ UNCHANGED <<pc, layout, packer, nverts, ret, codec>>

\* parseNext: case 's', case 'o', case 'b'
ArgsFlag ==
    /\ pc = "argv"
    /\ \E f \in {OPTS_POSITIONS_SCALE, OPTS_NORMALS_ENCODED,
                 OPTS_BITANGENTS_SIGN} :
           tool' = [tool EXCEPT !.opts = @ \cup {f}]
    /\ UNCHANGED <<pc, layout, packer, nverts, ret, codec>>

\* parseNext: case 'c', setAllOptions then fixUp
ArgsShortcode ==
    /\ pc = "argv"
    /\ \E val \in Shortcodes :
           /\ tool' = FixUpOptions(SetAllOptions(val))
           /\ pc' = IF FixUpExits(SetAllOptions(val)) THEN "exit" ELSE "argv"
    /\ UNCHANGED <<layout, packer, nverts, ret, codec>>

\* parseArgs: the fixUp() that ends it
ArgsFixUp ==
    /\ pc = "argv"
    /\ tool' = FixUpOptions(tool)
    /\ pc' = IF FixUpExits(tool) THEN "exit" ELSE "fixed"
    /\ UNCHANGED <<layout, packer, nverts, ret, codec>>

NextArgs ==
    ArgsType \/ ArgsIdxs \/ ArgsFlag \/ ArgsShortcode \/ ArgsFixUp \/ Plan

SpecArgs == InitArgs /\ [][NextArgs]_vars

(***************************************************************************)
(* SpecPacker: a VertexPacker over PackerSize bytes, with any options and  *)
(* any sequence of add, align and rewind.                                  *)
(***************************************************************************)
InitPacker ==
    /\ pc = "packer"
    /\ tool = DefaultOptions
    /\ layout = EmptyLayout
    /\ \E opts \in {VP_OPTS_DEFAULT, VP_OPTS_BIG_ENDIAN, VP_OPTS_SIGNED_LEGACY} :
           packer = NewPacker(PackerSize, opts, 205)
    /\ nverts = 0
    /\ ret = NoRet
    /\ codec = NoCodec

\* packer.add(data, type) for a float
PackerAddFloat ==
    /\ pc = "packer"
    /\ \E data \in FloatData, type \in PackerTypes :
          LET r == Add(packer, data, type)
          IN  /\ packer' = r.p
              /\ ret' = [op |-> "add", failed |-> r.failed, type |-> type,
                         base |-> 0, size0 |-> Size(packer), at |-> NoAt]
    /\ UNCHANGED <<pc, tool, layout, nverts, codec>>

\* packer.add(data, type) for an int
PackerAddInt ==
    /\ pc = "packer"
    /\ \E data \in IntData, type \in PackerTypes :
          LET r == AddInt(packer, data, type)
          IN  /\ packer' = r.p
              /\ ret' = [op |-> "addInt", failed |-> r.failed, type |-> type,
                         base |-> 0, size0 |-> Size(packer), at |-> NoAt]
    /\ UNCHANGED <<pc, tool, layout, nverts, codec>>

\* packer.align(base)
PackerAlign ==
    /\ pc = "packer"
    /\ \E base \in 0..MaxBase :
          LET r == Align(packer, base)
          IN  /\ packer' = r.p
              /\ ret' = [op |-> "align", failed |-> r.failed, type |-> EXCLUDE,
                         base |-> base, size0 |-> Size(packer), at |-> NoAt]
    /\ UNCHANGED <<pc, tool, layout, nverts, codec>>

\* packer.rewind()
PackerRewind ==
    /\ pc = "packer"
    /\ packer' = Rewind(packer)
    /\ ret' = [op |-> "rewind", failed |-> FALSE, type |-> EXCLUDE,
               base |-> 0, size0 |-> Size(packer), at |-> NoAt]
    /\ UNCHANGED <<pc, tool, layout, nverts, codec>>

NextPacker == PackerAddFloat \/ PackerAddInt \/ PackerAlign \/ PackerRewind

SpecPacker == InitPacker /\ [][NextPacker]_vars

(***************************************************************************)
(* SpecEndian: a VertexPacker over PackerSize bytes with any of the four   *)
(* combinations of its options, and the first add made on it, of either    *)
(* kind and of any type.                                                   *)
(***************************************************************************)
EndianFloats == {FOne, FMinusOne, FHalf, FNought}

\* 0x0102, -2, 0x1234 and 0
EndianInts == {258, 0 - 2, 4660, 0}

InitEndian ==
    /\ pc = "endian"
    /\ tool = DefaultOptions
    /\ layout = EmptyLayout
    /\ \E opts \in {VP_OPTS_DEFAULT, VP_OPTS_BIG_ENDIAN, VP_OPTS_SIGNED_LEGACY,
                    VP_OPTS_BIG_ENDIAN + VP_OPTS_SIGNED_LEGACY} :
           packer = NewPacker(PackerSize, opts, 205)
    /\ nverts = 0
    /\ ret = NoRet
    /\ codec = NoCodec

\* packer.add(data, type) for a float
EndianAddFloat ==
    /\ pc = "endian"
    /\ Size(packer) = 0
    /\ \E data \in EndianFloats, type \in Storage :
          LET r == Add(packer, data, type)
          IN  /\ packer' = r.p
              /\ ret' = [op |-> "add", failed |-> r.failed, type |-> type,
                         base |-> 0, size0 |-> Size(packer), at |-> NoAt]
    /\ UNCHANGED <<pc, tool, layout, nverts, codec>>

\* packer.add(data, type) for an int
EndianAddInt ==
    /\ pc = "endian"
    /\ Size(packer) = 0
    /\ \E data \in EndianInts, type \in Storage :
          LET r == AddInt(packer, data, type)
          IN  /\ packer' = r.p
              /\ ret' = [op |-> "addInt", failed |-> r.failed, type |-> type,
                         base |-> 0, size0 |-> Size(packer), at |-> NoAt]
    /\ UNCHANGED <<pc, tool, layout, nverts, codec>>

NextEndian == EndianAddFloat \/ EndianAddInt

SpecEndian == InitEndian /\ [][NextEndian]_vars

(***************************************************************************)
(* SpecCodec: the round trips of runTests, decode then encode, over every  *)
(* stored integer of the signed normalised types and both conventions.     *)
(***************************************************************************)
CodecTypes == {SINT08N, SINT16N}

\* every integer the type stores
StoredRange(type) ==
    IF Bytes(type) = 1 THEN INT8_MIN..INT8_MAX ELSE INT16_MIN..INT16_MAX

InitCodec ==
    /\ pc = "codec"
    /\ tool = DefaultOptions
    /\ layout = EmptyLayout
    /\ packer = NewPacker(0, VP_OPTS_DEFAULT, 0)
    /\ nverts = 0
    /\ ret = NoRet
    /\ \E type \in CodecTypes, legacy \in BOOLEAN :
           \E n \in StoredRange(type) :
               codec = [type |-> type, legacy |-> legacy, n |-> n,
                        f |-> FNought, i |-> 0, step |-> "stored"]

\* float f = decodeLegacy(n, type) or decodeModern(n, type)
CodecDecode ==
    /\ pc = "codec"
    /\ codec.step = "stored"
    /\ codec' = [codec EXCEPT
           !.f = IF codec.legacy THEN DecodeLegacy(codec.n, codec.type)
                                 ELSE DecodeModern(codec.n, codec.type),
           !.step = "decoded"]
    /\ UNCHANGED <<pc, tool, layout, packer, nverts, ret>>

\* int32_t i = encodeLegacy(f, type) or encodeModern(f, type)
CodecEncode ==
    /\ pc = "codec"
    /\ codec.step = "decoded"
    /\ codec' = [codec EXCEPT
           !.i = IF codec.legacy THEN EncodeLegacy(codec.f, codec.type)
                                 ELSE EncodeModern(codec.f, codec.type),
           !.step = "encoded"]
    /\ UNCHANGED <<pc, tool, layout, packer, nverts, ret>>

NextCodec == CodecDecode \/ CodecEncode

SpecCodec == InitCodec /\ [][NextCodec]_vars

(***************************************************************************)
(* SpecStored: the same round trip from every integer an 8 or 16 bit type  *)
(* stores, for the normalised and the clamped types.                       *)
(***************************************************************************)
StoredTypes ==
    {SINT08N, SINT08C, UINT08N, UINT08C, SINT16N, SINT16C, UINT16N, UINT16C}

\* the least and the greatest integer a type of one or two bytes stores
StorageMin(type) ==
    IF ~IsSigned(type) THEN 0
    ELSE IF Bytes(type) = 1 THEN INT8_MIN ELSE INT16_MIN

StorageMax(type) ==
    IF IsSigned(type)
    THEN IF Bytes(type) = 1 THEN INT8_MAX ELSE INT16_MAX
    ELSE IF Bytes(type) = 1 THEN UINT8_MAX ELSE UINT16_MAX

InitStored ==
    /\ pc = "codec"
    /\ tool = DefaultOptions
    /\ layout = EmptyLayout
    /\ packer = NewPacker(0, VP_OPTS_DEFAULT, 0)
    /\ nverts = 0
    /\ ret = NoRet
    /\ \E type \in StoredTypes, legacy \in BOOLEAN :
           \E n \in StorageMin(type)..StorageMax(type) :
               codec = [type |-> type, legacy |-> legacy, n |-> n,
                        f |-> FNought, i |-> 0, step |-> "stored"]

SpecStored == InitStored /\ [][NextCodec]_vars

(***************************************************************************)
(* SpecEncode: encodeLegacy and encodeModern of floats inside and outside  *)
(* of [-1, 1], the multiples of 1 / EncodeDen up to MaxInput / EncodeDen.  *)
(***************************************************************************)
MaxInput == 600

EncodeDen == 254

EncodeInputs ==
    {FDivInt(FromInt(k), EncodeDen) : k \in (0 - MaxInput)..MaxInput}

InitEncode ==
    /\ pc = "codec"
    /\ tool = DefaultOptions
    /\ layout = EmptyLayout
    /\ packer = NewPacker(0, VP_OPTS_DEFAULT, 0)
    /\ nverts = 0
    /\ ret = NoRet
    /\ \E type \in CodecTypes, legacy \in BOOLEAN :
           \E f \in EncodeInputs :
               codec = [type |-> type, legacy |-> legacy, n |-> 0,
                        f |-> f, i |-> 0, step |-> "input"]

\* int32_t i = encodeLegacy(f, type) or encodeModern(f, type)
EncodeInput ==
    /\ pc = "codec"
    /\ codec.step = "input"
    /\ codec' = [codec EXCEPT
           !.i = IF codec.legacy THEN EncodeLegacy(codec.f, codec.type)
                                 ELSE EncodeModern(codec.f, codec.type),
           !.step = "encoded"]
    /\ UNCHANGED <<pc, tool, layout, packer, nverts, ret>>

\* float f = decodeLegacy(i, type) or decodeModern(i, type) of the code
DecodeOutput ==
    /\ pc = "codec"
    /\ codec.step = "encoded"
    /\ codec' = [codec EXCEPT
           !.n = codec.i,
           !.f = IF codec.legacy THEN DecodeLegacy(codec.i, codec.type)
                                 ELSE DecodeModern(codec.i, codec.type),
           !.step = "redecoded"]
    /\ UNCHANGED <<pc, tool, layout, packer, nverts, ret>>

NextEncode == EncodeInput \/ DecodeOutput

SpecEncode == InitEncode /\ [][NextEncode]_vars

(***************************************************************************)
(* SpecHalf: encodeModern and encodeLegacy of a float as FLOAT16, which is *)
(* utils::floatToHalf in its table based build, and the decoding of the    *)
(* half. The floats taken are the infinities, NaNs of either sign, and the *)
(* midpoints of every two neighbouring finite halves up to MaxHalf.        *)
(***************************************************************************)
\* the greatest half taken as the lower neighbour: 0x7BFE, below FLT16_MAX
MaxHalf == 31742

\* the mantissas of the NaNs taken: one bit, or all the bits from one up
NaNPayloads ==
    {2^k : k \in 0..22} \cup {8388608 - 2^k : k \in 0..22}

\* the float halfway between the half h and the next half, h + 1
HalfMidpoint(s, h) ==
    IF h \div 1024 = 0
    THEN PackF32(s, 2 * h + 1, 0 - 25)
    ELSE F32(s, (h \div 1024) + 112, (2 * (h % 1024) + 1) * 4096)

InitHalf ==
    /\ pc = "codec"
    /\ tool = DefaultOptions
    /\ layout = EmptyLayout
    /\ packer = NewPacker(0, VP_OPTS_DEFAULT, 0)
    /\ nverts = 0
    /\ ret = NoRet
    /\ \E legacy \in BOOLEAN, s \in 0..1 :
           \/ \E m \in {0} \cup NaNPayloads :
                  codec = [type |-> FLOAT16, legacy |-> legacy, n |-> 0,
                           f |-> F32(s, 255, m), i |-> 0, step |-> "input"]
           \/ \E h \in 0..MaxHalf :
                  codec = [type |-> FLOAT16, legacy |-> legacy, n |-> h,
                           f |-> HalfMidpoint(s, h), i |-> 0,
                           step |-> "input"]

SpecHalf == InitHalf /\ [][NextEncode]_vars

(***************************************************************************)
(* SpecHalfBits: decodeModern and decodeLegacy of every 16 bit pattern as  *)
(* FLOAT16, which is utils::halfToFloat in its table based build, and the  *)
(* encoding of the float as FLOAT16 again, utils::floatToHalf.             *)
(***************************************************************************)
InitHalfBits ==
    /\ pc = "codec"
    /\ tool = DefaultOptions
    /\ layout = EmptyLayout
    /\ packer = NewPacker(0, VP_OPTS_DEFAULT, 0)
    /\ nverts = 0
    /\ ret = NoRet
    /\ \E h \in 0..UINT16_MAX, legacy \in BOOLEAN :
           codec = [type |-> FLOAT16, legacy |-> legacy, n |-> h,
                    f |-> FNought, i |-> 0, step |-> "stored"]

SpecHalfBits == InitHalfBits /\ [][NextCodec]_vars

(***************************************************************************)
(* SpecStore: Vec2::store, Vec3::store and Vec4::store, one after the      *)
(* other, on a VertexPacker over StoreSize bytes. ret.at keeps the size()  *)
(* of the packer after the add of each component.                          *)
(***************************************************************************)
\* bytes of the buffer the vectors are stored into
StoreSize == 5

\* vectors stored by one run
MaxStores == 2

\* the storage types the vectors are stored as
StoreTypes == {EXCLUDE, SINT08N, UINT08C, SINT16N, FLOAT16, FLOAT32}

\* the vector stored, as many of its components as the store takes
StoreData == <<FOne, FMinusOne, FHalf, FNought>>

\* the calls of a store, with the size() noted after each of them
Noted(calls) ==
    [i \in 1..(2 * Len(calls)) |->
        IF i % 2 = 1 THEN calls[(i + 1) \div 2] ELSE EnterBlock(i \div 2)]

\* failed |= dest.add(x, type); failed |= dest.add(y, type); ... return failed
StoreOn(p, calls) ==
    Run([p |-> p, failed |-> VP_SUCCEEDED, at |-> [k \in 1..Len(calls) |-> 0]],
        Noted(calls))

InitStore ==
    /\ pc = "store"
    /\ tool = DefaultOptions
    /\ layout = EmptyLayout
    /\ \E opts \in {VP_OPTS_DEFAULT, VP_OPTS_BIG_ENDIAN, VP_OPTS_SIGNED_LEGACY} :
           packer = NewPacker(StoreSize, opts, 205)
    /\ nverts = 0
    /\ ret = NoRet
    /\ codec = NoCodec

\* what a store leaves: the packer, the result and the sizes noted
Stored(r, type) ==
    /\ packer' = r.p
    /\ ret' = [op |-> "store", failed |-> r.failed, type |-> type,
               base |-> 0, size0 |-> Size(packer), at |-> r.at]
    /\ nverts' = nverts + 1
    /\ UNCHANGED <<pc, tool, layout, codec>>

\* vec2.store(packer, type)
StoreVec2 ==
    /\ pc = "store"
    /\ nverts < MaxStores
    /\ \E type \in StoreTypes :
           Stored(StoreOn(packer, Vec2Store(StoreData, type)), type)

\* vec3.store(packer, type)
StoreVec3 ==
    /\ pc = "store"
    /\ nverts < MaxStores
    /\ \E type \in StoreTypes :
           Stored(StoreOn(packer, Vec3Store(StoreData, type)), type)

\* vec4.store(packer, type)
StoreVec4 ==
    /\ pc = "store"
    /\ nverts < MaxStores
    /\ \E type \in StoreTypes :
           Stored(StoreOn(packer, Vec4Store(StoreData, type)), type)

NextStore == StoreVec2 \/ StoreVec3 \/ StoreVec4

SpecStore == InitStore /\ [][NextStore]_vars

(***************************************************************************)
(* SpecWrite: writeHeader and writeVertex of a layout on a VertexPacker    *)
(* over a buffer of any size up to MaxWrite bytes, so that the calls on    *)
(* the packer fail early, late or not at all.                              *)
(***************************************************************************)
\* largest buffer written into
MaxWrite == 20

\* the vertex attribute indices of the header
VERT_POSN_ID == 0
VERT_TEX0_ID == 1
VERT_NORM_ID == 2
VERT_TANS_ID == 3
VERT_BTAN_ID == 4

\* Storage::toBasicType
ToBasicType(type) ==
    IF type \in {SINT08N, SINT08C} THEN 1
    ELSE IF type \in {UINT08N, UINT08C} THEN 2
    ELSE IF type \in {SINT16N, SINT16C} THEN 3
    ELSE IF type \in {UINT16N, UINT16C} THEN 4
    ELSE IF type = FLOAT16 THEN 7
    ELSE IF type = SINT32C THEN 5
    ELSE IF type = UINT32C THEN 6
    ELSE IF type = FLOAT32 THEN 8
    ELSE 0

\* AttrParams::write: the calls it makes on the packer
AttrWrite(attr, index) ==
    IF IsSet(attr.storage)
    THEN <<AddIntCall(index, UINT08C),
           AddIntCall(attr.components, UINT08C),
           AddIntCall(ToBasicType(attr.storage)
                          + (IF IsNormalized(attr.storage) THEN 128 ELSE 0),
                      UINT08C),
           AddIntCall(attr.offset, UINT08C)>>
    ELSE <<>>

\* BufferLayout::writeHeader: the calls it makes on the packer
WriteHeaderCalls(b) ==
    LET attrs == (IF IsSet(b.posn.storage) THEN 1 ELSE 0)
               + (IF IsSet(b.tex0.storage) THEN 1 ELSE 0)
               + (IF IsSet(b.norm.storage) THEN 1 ELSE 0)
               + (IF IsSet(b.tans.storage) THEN 1 ELSE 0)
               + (IF IsSet(b.btan.storage) THEN 1 ELSE 0)
    IN  <<AddIntCall(b.packTans, UINT08C), AddIntCall(b.packSign, UINT08C),
          AddIntCall(b.stride, UINT08C), AddIntCall(attrs, UINT08C)>>
        \o AttrWrite(b.posn, VERT_POSN_ID) \o AttrWrite(b.tex0, VERT_TEX0_ID)
        \o AttrWrite(b.norm, VERT_NORM_ID) \o AttrWrite(b.tans, VERT_TANS_ID)
        \o AttrWrite(b.btan, VERT_BTAN_ID)

\* BufferLayout::writeHeader: the packer after the call and the result
WriteHeaderOn(b, p) ==
    Run([p |-> p, failed |-> VP_SUCCEEDED, at |-> NoAt], WriteHeaderCalls(b))

\* the options the layouts written are planned from
WriteOptions ==
    {[posn |-> posn, text |-> text, norm |-> norm, tans |-> tans,
      idxs |-> UINT16C, opts |-> opts] :
        posn \in {FLOAT32, SINT16N}, text \in {EXCLUDE, FLOAT32},
        norm \in {SINT08N, FLOAT32}, tans \in {EXCLUDE, SINT08N},
        opts \in {{}, {OPTS_BITANGENTS_SIGN}}}

InitWrite ==
    /\ pc = "planned"
    /\ \E o \in WriteOptions :
           /\ tool = FixUpOptions(o)
           /\ layout = NewBufferLayout(FixUpOptions(o))
    /\ \E size \in 0..MaxWrite : packer = NewPacker(size, VP_OPTS_DEFAULT, 0)
    /\ nverts = 0
    /\ ret = NoRet
    /\ codec = NoCodec

\* layout.writeHeader(packer), ahead of the vertices
WriteHeader ==
    /\ pc = "planned"
    /\ ret.op = "none"
    /\ LET r == WriteHeaderOn(layout, packer)
       IN  /\ packer' = r.p
           /\ ret' = [op |-> "writeHeader", failed |-> r.failed,
                      type |-> EXCLUDE, base |-> 0,
                      size0 |-> Size(packer), at |-> r.at]
    /\ UNCHANGED <<pc, tool, layout, nverts, codec>>

NextWrite == WriteHeader \/ WriteVertex

SpecWrite == InitWrite /\ [][NextWrite]_vars

(***************************************************************************)
(* SpecVec: Vec3<T> of vec.h and the octahedral encoding of objvertex.cpp  *)
(* on vectors whose components are small integers. Every product, sum and  *)
(* difference of such components is an integer a float holds exactly, so   *)
(* the float operations of the code are integer operations here. encodeOct *)
(* divides by the sum of the absolute components and normalize by the      *)
(* length: the round trip is taken only for the vectors where both         *)
(* divisors are 1, which are the six axis-aligned unit vectors.            *)
(***************************************************************************)
\* largest absolute component of the vectors taken
MaxCoord == 1

\* Vec2(T const x, T const y)
Vec2(x, y) == [x |-> x, y |-> y]

\* Vec3(T const x, T const y, T const z)
Vec3(x, y, z) == [x |-> x, y |-> y, z |-> z]

\* std::abs
Abs(val) == IF val < 0 THEN 0 - val ELSE val

\* the argument of std::sqrt in Vec3::len
LenSquared(v) == v.x * v.x + v.y * v.y + v.z * v.z

\* Vec3::dot
Dot(a, b) == a.x * b.x + a.y * b.y + a.z * b.z

\* Vec3::cross, with the subtractions the source has
Cross(lhs, rhs) ==
    Vec3(lhs.y * rhs.z - lhs.z - rhs.y,
         lhs.z * rhs.x - lhs.x - rhs.z,
         lhs.x * rhs.y - lhs.y - rhs.x)

\* Vec3::len for a vector whose length is an integer, where std::sqrt is
\* exact
VecLen(v) == CHOOSE l \in 0..LenSquared(v) : l * l = LenSquared(v)

\* Vec3::normalize for a vector whose components its length divides
Normalize(v) ==
    LET l == VecLen(v)
    IN IF l > 0 THEN Vec3(v.x \div l, v.y \div l, v.z \div l)
                ELSE Vec3(0, 0, 0)

\* _sign_: the sign of val with 0 taken as +1
SignOf(val) == IF val >= 0 THEN 1 ELSE 0 - 1

\* encodeOct(const vec3&) for a vector whose absolute components sum to 0 or 1
EncodeOct(vec) ==
    LET sum  == Abs(vec.x) + Abs(vec.y) + Abs(vec.z)
        vecX == IF sum # 0 THEN vec.x \div sum ELSE 0
        vecY == IF sum # 0 THEN vec.y \div sum ELSE 0
    IN Vec2(IF vec.z <= 0 THEN (1 - Abs(vecY)) * SignOf(vecX) ELSE vecX,
            IF vec.z <= 0 THEN (1 - Abs(vecX)) * SignOf(vecY) ELSE vecY)

\* decodeOct(const vec2&)
DecodeOct(enc) ==
    LET z == 1 - Abs(enc.x) - Abs(enc.y)
        vec == IF z < 0 THEN Vec3((1 - Abs(enc.y)) * SignOf(enc.x),
                                  (1 - Abs(enc.x)) * SignOf(enc.y), z)
                        ELSE Vec3(enc.x, enc.y, z)
    IN Normalize(vec)

\* the vectors taken as operands
Vectors ==
    {Vec3(x, y, z) : x \in (0 - MaxCoord)..MaxCoord,
                     y \in (0 - MaxCoord)..MaxCoord,
                     z \in (0 - MaxCoord)..MaxCoord}

\* the six axis-aligned unit vectors
AxisVectors == {v \in Vectors : Abs(v.x) + Abs(v.y) + Abs(v.z) = 1}

InitVec ==
    /\ pc = "vec"
    /\ tool = DefaultOptions
    /\ layout = EmptyLayout
    /\ packer = NewPacker(0, VP_OPTS_DEFAULT, 0)
    /\ nverts = 0
    /\ ret = NoRet
    /\ \E a \in Vectors, b \in Vectors :
           codec = [a |-> a, b |-> b, enc |-> Vec2(0, 0),
                    out |-> Vec3(0, 0, 0), step |-> "input"]

\* vec3 out = vec3::cross(a, b)
VecCross ==
    /\ pc = "vec"
    /\ codec.step = "input"
    /\ codec' = [codec EXCEPT !.out = Cross(codec.a, codec.b),
                              !.step = "crossed"]
    /\ UNCHANGED <<pc, tool, layout, packer, nverts, ret>>

\* vec2 enc = encodeOct(a)
VecEncodeOct ==
    /\ pc = "vec"
    /\ codec.step = "input"
    /\ codec.a \in AxisVectors
    /\ codec' = [codec EXCEPT !.enc = EncodeOct(codec.a),
                              !.step = "encoded"]
    /\ UNCHANGED <<pc, tool, layout, packer, nverts, ret>>

\* vec3 out = decodeOct(enc)
VecDecodeOct ==
    /\ pc = "vec"
    /\ codec.step = "encoded"
    /\ codec' = [codec EXCEPT !.out = DecodeOct(codec.enc),
                              !.step = "decoded"]
    /\ UNCHANGED <<pc, tool, layout, packer, nverts, ret>>

NextVec == VecCross \/ VecEncodeOct \/ VecDecodeOct

SpecVec == InitVec /\ [][NextVec]_vars

(***************************************************************************)
(* Properties.                                                             *)
(***************************************************************************)
\* the five attributes of a layout in the order they are planned and written
AttrNames == <<"posn", "tex0", "norm", "tans", "btan">>

\* an attribute of the layout is present: operator bool of AttrParams
Present(b, a) == IsSet(b[a].storage)

\* C1: writeVertex on a packer with enough free space advances size() by the
\* layout's stride, and each present attribute's first byte is written at the
\* size() before the call plus the attribute's planned offset.
C1_WriteMirrorsPlan ==
    (ret.op = "writeVertex" /\ ~ret.failed) =>
        /\ Size(packer) = ret.size0 + layout.stride
        /\ \A k \in 1..5 :
               Present(layout, AttrNames[k]) =>
                   ret.at[AttrNames[k]]
                       = ret.size0 + layout[AttrNames[k]].offset

\* C1 witness: a vertex was written by a layout with a standalone tangent
\* that hosts the bitangent's sign
C1_Witness ==
    /\ ret.op = "writeVertex" /\ ~ret.failed
    /\ layout.packSign = PACK_TANS_W

C4_MultiplesOfFour ==
    pc = "planned" =>
        /\ layout.stride % 4 = 0
        /\ \A k \in 1..5 :
               Present(layout, AttrNames[k]) =>
                   layout[AttrNames[k]].offset % 4 = 0

\* C4 witness: a layout whose position, normal and tangent all need padding
C4_Witness ==
    /\ pc = "planned"
    /\ layout.posn.unaligned /\ layout.norm.unaligned /\ layout.tans.unaligned
    /\ layout.stride > 0

\* the options of C5, as fixUp leaves them
C5_Options ==
    /\ tool.posn \in {SINT16N, SINT16C, FLOAT16}
    /\ tool.text = EXCLUDE
    /\ tool.norm = SINT08N /\ tool.tans = SINT08N
    /\ HasOpt(tool.opts, OPTS_NORMALS_ENCODED)
    /\ HasOpt(tool.opts, OPTS_BITANGENTS_SIGN)

\* C5: with a signed 16 bit position, no uv0, SINT08N normals and tangents,
\* encoded normals and the bitangent as a sign, the planner packs the
\* tangents into the normal's zw and the sign into the position's w, keeps
\* no standalone tangent or bitangent, and the stride is 12.
C5_PackedExample ==
    (pc = "planned" /\ C5_Options) =>
        /\ layout.packTans = PACK_NORM_Z
        /\ layout.packSign = PACK_POSN_W
        /\ ~Present(layout, "tans") /\ ~Present(layout, "btan")
        /\ layout.posn.components = 4 /\ layout.norm.components = 4
        /\ layout.stride = 12

\* C5 witness: the layout planned for those options, with a scaled position
C5_Witness ==
    /\ pc = "planned" /\ C5_Options
    /\ tool.posn = SINT16N
    /\ layout.stride = 12

\* the attribute that hosts the bitangent's sign
SignHost(b) ==
    IF b.packSign = PACK_POSN_W THEN b.posn
    ELSE IF b.packSign = PACK_TEX0_Z THEN b.tex0
    ELSE IF b.packSign \in {PACK_NORM_Z, PACK_NORM_W} THEN b.norm
    ELSE b.tans

\* the bytes of the memory behind the end of the packer's buffer
Behind(p) == p.over..(p.over + Slack - 1)

\* C6: after any sequence of add (either overload), align and rewind on a
\* packer created over N bytes, 0 <= size() <= N, and no byte outside the
\* N bytes has been written.
C6_StaysInsideBuffer ==
    pc = "packer" =>
        /\ packer.over = PackerSize
        /\ 0 <= Size(packer) /\ Size(packer) <= packer.over
        /\ DOMAIN packer.mem = 0..(PackerSize + Slack - 1)
        /\ \A i \in Behind(packer) : packer.mem[i] = packer.fill

\* C6 witness: every byte of the buffer has been written and an align has
\* padded it to its very end
C6_Witness ==
    /\ pc = "packer"
    /\ Size(packer) = packer.over
    /\ ret.op = "align" /\ ~ret.failed /\ ret.size0 < Size(packer)
    /\ \A i \in 0..(packer.over - 1) : packer.mem[i] # packer.fill

\* C7: an add or an align that returns VP_FAILED leaves size() and every
\* byte of the buffer as they were.
C7_FailureChangesNothing ==
    [][(ret'.op \in {"add", "addInt", "align"} /\ ret'.failed = VP_FAILED)
          => (Size(packer') = Size(packer) /\ packer'.mem = packer.mem)]_vars

\* C7 witness: an add of four bytes has failed with two bytes still free
C7_Witness ==
    /\ pc = "packer"
    /\ ret.op = "add" /\ ret.failed = VP_FAILED /\ ret.type = FLOAT32
    /\ Size(packer) = packer.over - 2

\* C8: an add that returns VP_SUCCEEDED advances size() by bytes(type), for
\* the float and the int overload; an add of EXCLUDE always succeeds, writes
\* nothing and leaves size() as it was, also when the buffer is full.
C8_AddAdvancesByWidth ==
    [][ret'.op \in {"add", "addInt"} =>
          /\ ret'.failed = VP_SUCCEEDED =>
                 /\ Size(packer') = Size(packer) + Bytes(ret'.type)
                 /\ Bytes(ret'.type) \in {0, 1, 2, 4}
          /\ ret'.type = EXCLUDE =>
                 /\ ret'.failed = VP_SUCCEEDED
                 /\ packer' = packer]_vars

\* C8 witness: the int overload has added EXCLUDE to a full buffer
C8_Witness ==
    /\ pc = "packer"
    /\ ret.op = "addInt" /\ ret.type = EXCLUDE /\ ret.failed = VP_SUCCEEDED
    /\ ret.size0 = packer.over /\ Size(packer) = packer.over

\* what C9 says of the padding: between 0 and 3 bytes, all of them zero
C9_PadIsZeros ==
    /\ Size(packer) - ret.size0 \in 0..3
    /\ \A i \in ret.size0..(Size(packer) - 1) : packer.mem[i] = 0

\* C9 as stated: for every cursor position and every base, after align(base)
\* succeeds size() - base is a multiple of 4, and the call wrote between 0
\* and 3 bytes, all of them zero.
C9_AlignedToAnyBase ==
    (ret.op = "align" /\ ret.failed = VP_SUCCEEDED) =>
        /\ (Size(packer) - ret.base) % 4 = 0
        /\ C9_PadIsZeros

\* C9 amended: after align(base) succeeds, size() - base is a multiple of 4
\* if size() was at least base before the call, and size() itself is a
\* multiple of 4 if it was below base; either way the call wrote between 0
\* and 3 bytes, all of them zero.
C9_AlignedToBaseOnceReached ==
    (ret.op = "align" /\ ret.failed = VP_SUCCEEDED) =>
        /\ IF ret.size0 >= ret.base
           THEN (Size(packer) - ret.base) % 4 = 0
           ELSE Size(packer) % 4 = 0
        /\ C9_PadIsZeros

\* C9 witness: an align with the cursor below its base has padded
C9_Witness ==
    /\ pc = "packer"
    /\ ret.op = "align" /\ ret.failed = VP_SUCCEEDED
    /\ ret.size0 < ret.base /\ ret.size0 < Size(packer)

\* C10: whenever the planner records a sign packing other than PACK_NONE,
\* the storage type of the attribute that hosts the sign is signed.
C10_SignHostIsSigned ==
    (pc = "planned" /\ layout.packSign # PACK_NONE) =>
        IsSigned(SignHost(layout).storage)

\* C10 witness: the sign is packed with unsigned byte normals
C10_Witness ==
    /\ pc = "planned"
    /\ layout.packSign = PACK_NORM_W
    /\ layout.norm.storage = UINT08N

\* C2: for SINT08N and SINT16N, under the legacy and the modern convention,
\* encoding the float decoded from a stored integer n gives n back, for
\* every n of the type's range, except that under the modern convention the
\* most negative n comes back as the negated maximum.
C2_RoundTrip ==
    codec.step = "encoded" =>
        LET min == IF codec.type = SINT08N THEN INT8_MIN ELSE INT16_MIN
            max == IF codec.type = SINT08N THEN INT8_MAX ELSE INT16_MAX
        IN  IF ~codec.legacy /\ codec.n = min
            THEN codec.i = 0 - max
            ELSE codec.i = codec.n

\* C2 witness: the most negative 16 bit integer has made the modern round
\* trip
C2_Witness ==
    /\ codec.step = "encoded" /\ codec.type = SINT16N /\ ~codec.legacy
    /\ codec.n = INT16_MIN /\ codec.i = 0 - INT16_MAX

\* C11: in a layout planned from the options any command line leaves
\* (type switches, flag switches and -c shortcodes in any order), the
\* tangents are packed nowhere but in the normal's z and w, and only when
\* the normals are encoded, tangents are asked for and the tangent type is
\* the normal type.
C11_TansPackedOnlyWithNormalsType ==
    pc = "planned" =>
        /\ layout.packTans \in {PACK_NONE, PACK_NORM_Z}
        /\ layout.packTans = PACK_NORM_Z =>
               /\ HasEncNormals(tool)
               /\ IsSet(tool.tans)
               /\ tool.tans = tool.norm

\* C11 witness: float tangents planned into the z and w of byte normals
C11_Witness ==
    /\ pc = "planned"
    /\ layout.packTans = PACK_NORM_Z
    /\ tool.norm = SINT08N
    /\ tool.tans = FLOAT32

\* C12 as claimed: with the tangents packed, the layout has neither a
\* tangent slot nor a bitangent slot of its own.
C12_NoTansNoBtanSlot ==
    (pc = "planned" /\ layout.packTans # PACK_NONE) =>
        /\ ~Present(layout, "tans")
        /\ ~Present(layout, "btan")

\* C12: with the tangents packed, the layout has no tangent slot of its
\* own, and it has a bitangent slot of its own exactly when the sign was
\* packed nowhere; the stride is the aligned sizes of the slots there are.
C12_NoTansSlotBtanUnlessSign ==
    (pc = "planned" /\ layout.packTans # PACK_NONE) =>
        /\ ~Present(layout, "tans")
        /\ Present(layout, "btan") <=> (layout.packSign = PACK_NONE)
        /\ layout.stride =
               (IF Present(layout, "posn")
                THEN GetAlignedSize(layout.posn) ELSE 0)
               + (IF Present(layout, "tex0")
                  THEN GetAlignedSize(layout.tex0) ELSE 0)
               + GetAlignedSize(layout.norm)
               + (IF layout.packSign = PACK_NONE
                  THEN GetAlignedSize(layout.btan) ELSE 0)

\* C12 witness: tangents packed, the sign not asked for, and a bitangent
\* slot of two encoded components after the normal
C12_Witness ==
    /\ pc = "planned"
    /\ layout.packTans = PACK_NORM_Z
    /\ layout.packSign = PACK_NONE
    /\ ~Present(layout, "tans")
    /\ layout.btan.components = 2

\* C13: the two packing decisions each hold one of the seven Packing
\* values, are never both PACK_NORM_Z, and with the tangents in the
\* normal's z and w the sign is not packed into the normal.
C13_PackingsApart ==
    pc = "planned" =>
        /\ layout.packTans \in Packing
        /\ layout.packSign \in Packing
        /\ ~(layout.packTans = PACK_NORM_Z /\ layout.packSign = PACK_NORM_Z)
        /\ layout.packTans = PACK_NORM_Z =>
               layout.packSign \notin {PACK_NORM_Z, PACK_NORM_W}

\* C13 witness: the tangents in the normal and the sign asked for and
\* packed in the position
C13_Witness ==
    /\ pc = "planned"
    /\ layout.packTans = PACK_NORM_Z
    /\ HasBitansSign(tool)
    /\ layout.packSign = PACK_POSN_W

\* f <= g for two floats that are zero or normal
FLeq(f, g) == ~FLess(g, f)

\* C14 as claimed: for UINT08N and UINT16N, under both conventions, the
\* encoding of v is clamp(round(v * max), 0, max), so that encoding the
\* float decoded from n gives n back, for every n of 0..max.
C14_UnsignedRoundTrip ==
    (codec.step = "encoded" /\ codec.type \in {UINT08N, UINT16N}) =>
        /\ codec.i = Clamp(CRound(FMulInt(codec.f, StorageMax(codec.type))),
                           0, StorageMax(codec.type))
        /\ codec.i = codec.n

\* C14 witness: 100 stored as UINT08N is decoded and encoded again as 0
C14_Witness ==
    /\ codec.step = "encoded" /\ codec.type = UINT08N
    /\ codec.n = 100 /\ codec.i = 0

\* the float decoded from a stored integer under the convention of the state
Decoded(n) ==
    IF codec.legacy THEN DecodeLegacy(n, codec.type)
                    ELSE DecodeModern(n, codec.type)

NormalizedTypes == {SINT08N, UINT08N, SINT16N, UINT16N}

\* C15 as claimed: for the four normalised types and both conventions, a
\* greater stored integer decodes to a greater float, over all the integers
\* of the type.
C15_DecodeStrictlyIncreasing ==
    (codec.step = "decoded" /\ codec.type \in NormalizedTypes
        /\ codec.n < StorageMax(codec.type)) =>
        FLess(codec.f, Decoded(codec.n + 1))

\* C15: a greater stored integer decodes to a greater float under the legacy
\* convention and for the unsigned types over all the integers of the type,
\* and under the modern convention for the signed types from the negated
\* maximum upwards; there the most negative integer decodes to no more than
\* the negated maximum does.
C15_DecodeIncreasing ==
    (codec.step = "decoded" /\ codec.type \in NormalizedTypes
        /\ codec.n < StorageMax(codec.type)) =>
        IF ~codec.legacy /\ codec.n = StorageMin(codec.type)
           /\ IsSigned(codec.type)
        THEN FLeq(codec.f, Decoded(codec.n + 1))
        ELSE FLess(codec.f, Decoded(codec.n + 1))

\* C15 witness: -128 stored as SINT08N is decoded under the modern
\* convention to what -127 decodes to
C15_Witness ==
    /\ codec.step = "decoded" /\ codec.type = SINT08N /\ ~codec.legacy
    /\ codec.n = INT8_MIN
    /\ codec.f = Decoded(0 - INT8_MAX)

\* C16: the float decoded from an integer of the type's range lies in
\* [-1, 1] for a signed normalised type, in [0, 1] for an unsigned
\* normalised type, and in the type's integer range for a clamped type,
\* under both conventions.
C16_DecodedInRange ==
    codec.step = "decoded" =>
        IF IsNormalized(codec.type)
        THEN /\ FLeq(IF IsSigned(codec.type) THEN FMinusOne ELSE FNought,
                     codec.f)
             /\ FLeq(codec.f, FOne)
        ELSE /\ FLeq(FromInt(StorageMin(codec.type)), codec.f)
             /\ FLeq(codec.f, FromInt(StorageMax(codec.type)))

\* C16 witness: -32768 stored as SINT16N is decoded under the modern
\* convention to less than -1
C16_Witness ==
    /\ codec.step = "decoded" /\ codec.type = SINT16N /\ ~codec.legacy
    /\ codec.n = INT16_MIN
    /\ FLess(codec.f, FMinusOne)

\* C17: under the modern convention, the code of any float as SINT08N or
\* SINT16N lies between the negated maximum and the maximum of the type,
\* never at the most negative integer; zero is encoded as 0, and 0 is
\* decoded as zero.
C17_ModernSymmetric ==
    (codec.step \in {"encoded", "redecoded"} /\ ~codec.legacy) =>
        /\ 0 - StorageMax(codec.type) <= codec.i
        /\ codec.i <= StorageMax(codec.type)
        /\ (codec.step = "encoded" /\ IsZeroF(codec.f)) => codec.i = 0
        /\ (codec.step = "redecoded" /\ codec.n = 0) => codec.f = FNought

\* C17 witness: a float below -1 has been encoded as SINT16N under the
\* modern convention, giving the negated maximum
C17_Witness ==
    /\ codec.step = "encoded" /\ codec.type = SINT16N /\ ~codec.legacy
    /\ FLess(codec.f, FMinusOne)
    /\ codec.i = 0 - INT16_MAX

\* the count bytes of the packer's memory from the byte at from
Written(p, from, count) == [i \in 1..count |-> p.mem[from + i - 1]]

Reversed(s) == [i \in 1..Len(s) |-> s[Len(s) + 1 - i]]

\* the same packer with OPTS_BIG_ENDIAN the other way round
OtherEndian(p) ==
    [p EXCEPT !.opts = IF HasMask(@, VP_OPTS_BIG_ENDIAN)
                       THEN @ - VP_OPTS_BIG_ENDIAN
                       ELSE @ + VP_OPTS_BIG_ENDIAN]

\* the packer an add of the step's kind and type leaves when it is made
\* with data on the packer p
AddOf(op, p, data, type) ==
    IF op = "add" THEN Add(p, data, type).p ELSE AddInt(p, data, type).p

\* C18: the bytes a successful add writes for a type of two or four bytes
\* with OPTS_BIG_ENDIAN are those it writes without the option in reverse
\* order, and without the option the least significant byte is the first;
\* for a type of one byte the byte written is the same either way.
C18_BigEndianReverses ==
    [][(ret'.op \in {"add", "addInt"} /\ ~ret'.failed /\ IsSet(ret'.type)) =>
          LET k    == Bytes(ret'.type)
              w    == Written(packer', ret'.size0, k)
              big  == HasMask(packer.opts, VP_OPTS_BIG_ENDIAN)
              data == IF ret'.op = "add" THEN EndianFloats ELSE EndianInts
          IN  /\ \E d \in data : AddOf(ret'.op, packer, d, ret'.type) = packer'
              /\ \A d \in data :
                   AddOf(ret'.op, packer, d, ret'.type) = packer' =>
                      /\ w = Reversed(Written(
                                 AddOf(ret'.op, OtherEndian(packer), d,
                                       ret'.type), ret'.size0, k))
                      /\ (ret'.op = "addInt"
                          /\ (ret'.type = SINT32C
                              \/ (ret'.type = UINT16C /\ d >= 0))) =>
                             /\ (IF big THEN w[k] ELSE w[1]) = d % 256
                             /\ (IF big THEN w[1] ELSE w[k])
                                    = (d \div 2^(8 * (k - 1))) % 256]_vars

\* C18 witness: 1.0 added as SINT16N to a big endian packer, the bytes of
\* 0x7FFF written high byte first
C18_Witness ==
    /\ pc = "endian"
    /\ HasMask(packer.opts, VP_OPTS_BIG_ENDIAN)
    /\ ret.op = "add" /\ ~ret.failed /\ ret.type = SINT16N
    /\ packer.mem[ret.size0] = 127
    /\ packer.mem[ret.size0 + 1] = 255

\* C19: floatToHalf turns every NaN into a half for which halfIsNaN holds
\* and which has the sign bit of the NaN, and the infinities into 0x7C00
\* and 0xFC00.
C19_NaNAndInfinityKept ==
    (codec.step = "encoded" /\ codec.f.e = 255) =>
        /\ codec.i \div 32768 = codec.f.s
        /\ IF codec.f.m = 0
           THEN codec.i = 31744 + 32768 * codec.f.s
           ELSE HalfIsNaN(codec.i)

\* C19 witness: the NaN 0x7F800001 has been converted, to the half of the
\* infinity
C19_Witness ==
    /\ codec.step = "encoded" /\ codec.f = F32(0, 255, 1)
    /\ HalfIsInf(codec.i)

\* C19 witness: the NaN 0x7FFFF000 has been converted, to the half of the
\* negative zero
C19_WitnessZero ==
    /\ codec.step = "encoded" /\ codec.f = F32(0, 255, 8388608 - 4096)
    /\ codec.i = 32768

\* C20: floatToHalf of a finite float halfway between two neighbouring
\* halves, normal or subnormal, is the one of the two whose last mantissa
\* bit is 0.
C20_TiesToEven ==
    (codec.step = "encoded" /\ codec.f.e < 255) =>
        codec.i = 32768 * codec.f.s
                  + (IF codec.n % 2 = 0 THEN codec.n ELSE codec.n + 1)

\* C20 witness: the float halfway between the halves 0x3C00 (1.0) and
\* 0x3C01 has been converted to 0x3C01
C20_Witness ==
    /\ codec.step = "encoded" /\ codec.f.e < 255 /\ codec.f.s = 0
    /\ codec.n = 15360 /\ codec.i = 15361

\* C21: a command line that asks for tangents and excludes the normals is
\* rejected by parseArgs: no such options come out of it, and no layout is
\* planned from them.
C21_TansWithoutNormRejected ==
    pc \in {"fixed", "planned"} => ~(IsSet(tool.tans) /\ ~IsSet(tool.norm))

\* C21 witness: a layout with a tangent slot and no normal slot
C21_Witness ==
    /\ pc = "planned"
    /\ IsSet(tool.tans) /\ ~IsSet(tool.norm)
    /\ Present(layout, "tans") /\ ~Present(layout, "norm")

\* C22: when parseArgs ends without exiting, the index type is EXCLUDE,
\* UINT08C, UINT16C or UINT32C, with the byte width of the type asked for;
\* it exits when the type asked for is FLOAT16 or FLOAT32.
C22_IndexUnsignedClamped ==
    [][/\ pc' \in {"fixed", "planned"} =>
              tool'.idxs \in {EXCLUDE, UINT08C, UINT16C, UINT32C}
       /\ pc' = "exit" => tool'.idxs \in {FLOAT16, FLOAT32}
       /\ (pc = "argv" /\ pc' = "fixed") =>
              /\ Bytes(tool'.idxs) = Bytes(tool.idxs)
              /\ tool.idxs \notin {FLOAT16, FLOAT32}]_vars

\* C22 witness: -i i has been fixed up to UINT32C
C22_Witness ==
    /\ pc = "fixed"
    /\ tool.idxs = UINT32C

\* C22 witness of the exit: float indices have ended the run
C22_WitnessExit ==
    /\ pc = "exit"
    /\ tool.idxs = FLOAT16

\* C23: for the six axis-aligned unit vectors decodeOct(encodeOct(v)) has an
\* angular error below 0.01 radians, the error being
\* atan2(len(cross(v, decoded)), dot(v, decoded)) with the cross and dot of
\* the code. atan2(l, d) < 0.01 says d > 0 and l < tan(0.01) * d; for integer
\* l * l and d below 100 that is d > 0 and 10000 * l * l < d * d.
AngularErrorSmall(v, d) ==
    /\ Dot(v, d) > 0
    /\ 10000 * LenSquared(Cross(v, d)) < Dot(v, d) * Dot(v, d)

C23_OctRoundTripErrorSmall ==
    (pc = "vec" /\ codec.step = "decoded")
        => AngularErrorSmall(codec.a, codec.out)

\* the round trip of +x has given +x back, and the error is still not small
C23_Witness ==
    /\ pc = "vec"
    /\ codec.step = "decoded"
    /\ codec.a = Vec3(1, 0, 0)
    /\ codec.out = codec.a
    /\ ~AngularErrorSmall(codec.a, codec.out)

\* the cross product of two vectors, which the name of Vec3::cross promises
CrossProduct(lhs, rhs) ==
    Vec3(lhs.y * rhs.z - lhs.z * rhs.y,
         lhs.z * rhs.x - lhs.x * rhs.z,
         lhs.x * rhs.y - lhs.y * rhs.x)

\* C29: Vec3::cross(a, b) is the cross product of a and b for every pair of
\* vectors; so cross(a, a) is the zero vector and cross(a, b) = -cross(b, a).
C29_CrossIsCrossProduct ==
    (pc = "vec" /\ codec.step = "crossed")
        => /\ codec.out = CrossProduct(codec.a, codec.b)
           /\ Cross(codec.a, codec.a) = Vec3(0, 0, 0)
           /\ Cross(codec.b, codec.a)
                  = Vec3(0 - codec.out.x, 0 - codec.out.y, 0 - codec.out.z)

\* cross(+x, +y) has been taken and is not +z
C29_Witness ==
    /\ pc = "vec"
    /\ codec.step = "crossed"
    /\ codec.a = Vec3(1, 0, 0)
    /\ codec.b = Vec3(0, 1, 0)
    /\ codec.out = Vec3(0 - 1, 0 - 1, 1)

\* the name of the attribute that hosts the bitangent's sign
SignHostName(b) ==
    IF b.packSign = PACK_POSN_W THEN "posn"
    ELSE IF b.packSign = PACK_TEX0_Z THEN "tex0"
    ELSE IF b.packSign \in {PACK_NORM_Z, PACK_NORM_W} THEN "norm"
    ELSE "tans"

\* the attribute whose block writeVertex enters after that of attribute a
BlockAfter(a) ==
    IF a = "posn" THEN "tex0" ELSE IF a = "tex0" THEN "norm"
    ELSE IF a = "norm" THEN "tans" ELSE "btan"

\* the bytes packer.add(data, type) writes with the options of packer p
BytesOfAdd(p, data, type) ==
    Written(Add(NewPacker(4, p.opts, 0), data, type).p, 0, Bytes(type))

\* the bytes the host attribute of layout b is planned to take
HostBytes(b) == SignHost(b).components * Bytes(SignHost(b).storage)

C25_ComponentsTwoToFour ==
    pc = "planned" =>
        \A k \in 1..5 :
            Present(layout, AttrNames[k]) =>
                layout[AttrNames[k]].components \in 2..4

\* C25 witness: a layout whose bitangent is the sign alone, one component
\* in a slot of its own
C25_Witness ==
    /\ pc = "planned"
    /\ Present(layout, "btan")
    /\ layout.btan.components = 1
    /\ layout.packSign = PACK_NONE
    /\ HasBitansSign(tool)

\* the size() of the packer before the add of component k of the last store
SizeBefore(k) == IF k = 1 THEN ret.size0 ELSE ret.at[k - 1]

\* the add of component k of the last store found no room
ComponentFailed(k) ==
    ~HasFreeSpace([packer EXCEPT !.next = SizeBefore(k)], ret.type)

\* C26: in Vec2, Vec3 and Vec4 store, once the add of one component fails no
\* later component of the vector is written, size() stays where it was when
\* that add failed, and store returns VP_FAILED.
C26_NothingAfterFailedComponent ==
    (pc = "store" /\ ret.op = "store") =>
        \A k \in 1..Len(ret.at) :
            ComponentFailed(k) =>
                /\ ret.failed = VP_FAILED
                /\ \A j \in k..Len(ret.at) : ret.at[j] = SizeBefore(k)
                /\ Size(packer) = SizeBefore(k)
                /\ \A i \in SizeBefore(k)..(packer.over - 1) :
                       packer.mem[i] = packer.fill

\* C26 witness: a Vec4 store whose first component was written and whose
\* second found no room
C26_Witness ==
    /\ pc = "store" /\ ret.op = "store"
    /\ Len(ret.at) = 4
    /\ ret.at[1] > ret.size0
    /\ ComponentFailed(2)
    /\ ret.failed = VP_FAILED

\* C26 witness: a Vec2 and a Vec3 store that failed on their last component
C26_WitnessLast ==
    /\ pc = "store" /\ ret.op = "store"
    /\ Len(ret.at) \in {2, 3}
    /\ ~ComponentFailed(Len(ret.at) - 1)
    /\ ComponentFailed(Len(ret.at))

\* the calls writeVertex makes on the packer, in their order
WriteVertexCalls(b, vertex, base) ==
    WritePosn(b, vertex, base) \o WriteTex0(b, vertex, base)
    \o WriteNorm(b, vertex, base) \o WriteTans(b, vertex, base)
    \o WriteBtan(b, vertex, base)

\* what one call on packer p gives
ResultOf(p, c) ==
    IF c.op = "add" THEN Add(p, c.data, c.type)
    ELSE IF c.op = "addInt" THEN AddInt(p, c.data, c.type)
    ELSE Align(p, c.base)

\* how many of the calls, made one after the other from packer p on, fail
RECURSIVE FailedCalls(_, _)
FailedCalls(p, calls) ==
    IF calls = <<>> THEN 0
    ELSE LET r == ResultOf(p, Head(calls))
         IN  (IF r.failed = VP_FAILED THEN 1 ELSE 0)
             + FailedCalls(r.p, Tail(calls))

\* C27: writeVertex and writeHeader return VP_FAILED if and only if at least
\* one of the add and align calls they made returned VP_FAILED.
C27_FailedIffSomeCallFailed ==
    [][/\ ret'.op = "writeVertex" =>
              ((ret'.failed = VP_FAILED)
                  <=> FailedCalls(packer,
                          WriteVertexCalls(layout, MeshVertex(nverts), 0)) > 0)
       /\ ret'.op = "writeHeader" =>
              ((ret'.failed = VP_FAILED)
                  <=> FailedCalls(packer, WriteHeaderCalls(layout)) > 0)]_vars

\* C27 witness: a writeVertex that found no room for the position and wrote
\* the attributes after it has returned VP_FAILED
C27_Witness ==
    /\ pc = "planned" /\ ret.op = "writeVertex" /\ ret.failed = VP_FAILED
    /\ Present(layout, "posn")
    /\ ret.at.tex0 = ret.size0
    /\ Size(packer) > ret.size0

\* C27 witness: a writeHeader that ran out of room among the attributes
C27_WitnessHeader ==
    /\ pc = "planned" /\ ret.op = "writeHeader" /\ ret.failed = VP_FAILED
    /\ Size(packer) > ret.size0 + 4

ClampedTypes == {SINT08C, UINT08C, SINT16C, UINT16C}

\* C30: for the clamped types SINT08C, UINT08C, SINT16C and UINT16C and both
\* conventions, the float decoded from an integer n of the type's range is n,
\* and encoding it gives n back, the most negative n included.
C30_ClampedRoundTrip ==
    (pc = "codec" /\ codec.type \in ClampedTypes) =>
        /\ codec.step \in {"decoded", "encoded"} => codec.f = FromInt(codec.n)
        /\ codec.step = "encoded" => codec.i = codec.n

\* C30 witness: -32768 stored as SINT16C has been decoded under the modern
\* convention to -32767 and encoded as -32767
C30_Witness ==
    /\ pc = "codec" /\ codec.type = SINT16C /\ ~codec.legacy
    /\ codec.step = "encoded"
    /\ codec.n = INT16_MIN
    /\ codec.f = FromInt(0 - INT16_MAX)
    /\ codec.i = 0 - INT16_MAX

\* C28: the table based conversions give every half back: for every 16 bit
\* pattern h, floatToHalf(halfToFloat(h)) = h; and the half of 1.0 converts
\* to exactly 1.0.
C28_HalfRoundTrip ==
    (pc = "codec" /\ codec.type = FLOAT16) =>
        /\ codec.step = "encoded" => codec.i = codec.n
        /\ (codec.step = "decoded" /\ codec.n = FloatToHalf(FOne))
               => codec.f = FOne

\* C28 witness: a negative NaN with every mantissa bit set has made the
\* round trip
C28_Witness ==
    /\ pc = "codec" /\ codec.type = FLOAT16 /\ codec.step = "encoded"
    /\ codec.n = UINT16_MAX
    /\ codec.f = F32(1, 255, 8380416)
    /\ codec.i = UINT16_MAX

\* C28 witness: the smallest subnormal half has made the round trip
C28_WitnessSubnormal ==
    /\ pc = "codec" /\ codec.type = FLOAT16 /\ codec.step = "encoded"
    /\ codec.n = 1
    /\ codec.f = F32(0, 103, 0)
    /\ codec.i = 1

\* C28 witness: the half of 1.0 has been decoded
C28_WitnessOne ==
    /\ pc = "codec" /\ codec.type = FLOAT16 /\ codec.step = "decoded"
    /\ codec.n = 15360
    /\ codec.f = FOne

====
